---- MODULE Spec2Model ----
(***************************************************************************)
(* Model of the full-duplex conversation orchestrator of                   *)
(* app/voice/personaplex.py: PersonaPlexEngine.handle_conversation, its    *)
(* three asyncio tasks (process_incoming_audio, process_audio_loop,        *)
(* send_audio_loop) and the engine's asyncio.Lock.                         *)
(*                                                                         *)
(* asyncio is cooperative: a coroutine runs without interruption from one  *)
(* await to the next.  Every action below is one such run: it starts at    *)
(* the await the coroutine is suspended in and ends at the next await      *)
(* (or at the coroutine's end).  The results of the transport callbacks,   *)
(* of the codec and of the model are inputs chosen with \E.                *)
(***************************************************************************)
EXTENDS Integers, Sequences, FiniteSets, TLC

\* ---------------------------------------------------------------- bounds
NumSessions == 2        \* sessions calling handle_conversation on one engine
FrameSize == 2          \* self.frame_size, samples per codec frame
MaxFrames == 2          \* frames receive_audio delivers to one session
MaxIdlePolls == 1       \* consecutive empty polls where silence is not studied
MaxInitPolls == 1       \* one-second polls before the engine is initialized
BurstFrames == 26       \* codec frames one network burst can decode to
StreamFrames == 4       \* codec frames that fill a batch of the egress loop
NumCallers == 3
MaxCalls == 2
\* config.py line 102: TTS_CHUNK_MIN_CHARS is read from the environment
\* (default 60); the model takes a small value
TTS_CHUNK_MIN_CHARS == 2
\* tokens the chat backend yields, and texts handled, on one connection
MaxTokens == 2
MaxTexts == 2
\* calls of accept_audio on one WhisperSTT
MaxChunks == 50

\* ------------------------------------------------------ program constants
max_wait == 300
MAX_SILENCE_LOOPS == 5000
HighWaterFrames == 50
LowWaterFrames == 10

Sessions == 1..NumSessions
Tasks == {"ingress", "generate", "egress"}
NoSession == 0
PaddingTokens == {0, 3}
TokenIds == {0, 3, 4}

\* voice names a session may ask for: a stem, with or without ".pt"
VoiceStems == {"alice", "broken", "ghost"}
VoiceNames == [stem : VoiceStems, pt : BOOLEAN]
\* the files of voice_prompt_dir: alice.pt loads, broken.pt exists and
\* torch.load raises on it, ghost.pt does not exist
VoiceFile(stem) ==
    CASE stem = "alice" -> "good"
      [] stem = "broken" -> "corrupt"
      [] OTHER -> "absent"
NoPath == "None"

VARIABLES
    initialized,      \* engine._initialized
    lock,             \* engine._lock: NoSession when free, else the holder
    lockWaiters,      \* engine._lock._waiters, first in first out
    is_active,        \* session.is_active
    close_requested,  \* session.close_requested
    ready_for_audio,  \* session.ready_for_audio
    hpc,              \* where handle_conversation(session) is suspended
    waited,           \* local `waited` of handle_conversation
    pendingQ,         \* the `pending` tasks still to cancel, in iteration order
    joinTask,         \* the task of `await task` in the cancel loop
    acquires,         \* times the session entered `async with self._lock`
    releases,         \* times the session left it
    tpc,              \* where each task of the session is suspended
    cancelReq,        \* tasks on which task.cancel() was called
    silence_count,    \* local of process_incoming_audio
    frames_received,  \* local of process_incoming_audio
    totalIn,          \* samples appended to all_pcm_data so far
    recv_error,       \* str(e) of the except of line 411 for the last poll, if any
    all_pcm_data,     \* the PCM accumulator (sample numbers, oldest first)
    consumed,         \* samples taken as chunks by process_audio_loop, in order
    evicted,          \* samples dropped by the eviction
    prevChunk,        \* the chunk taken by the last consuming iteration
    prevFailed,       \* whether encode/step/decode raised for prevChunk
    failedBefore,     \* whether it raised for the chunk taken before prevChunk
    nEmit,            \* times _lm_gen.step returned tokens (not None)
    nAppend,          \* times opus_writer.append_pcm completed
    nPostFail,        \* times assert/decode/append raised after a step result
    texts,            \* token ids whose text was handed to send_text
    totalOut,         \* response samples produced so far
    step_token,       \* tokens[0, 0, 0] of this iteration's step result, if any
    opus_writer,      \* samples appended to opus_writer and not yet read
    pcm_buffer,       \* local pcm_buffer of send_audio_loop (flattened)
    audio_calls,      \* batches handed to send_audio, in order
    audio_sent,       \* those of them for which send_audio returned
    voice_prompt,     \* session.voice_prompt, the voice name asked for
    lm_voice,         \* engine._lm_gen.voice_prompt, the voice in effect
    setup_calls,      \* the streaming calls of lines 356-362 the session made
    raised_by         \* what made handle_conversation(session) raise

engineVars == <<initialized, lock, lockWaiters>>
flagVars == <<is_active, close_requested, ready_for_audio>>
handlerVars == <<hpc, waited, pendingQ, joinTask, acquires, releases>>
taskVars == <<tpc, cancelReq>>
ingressVars == <<silence_count, frames_received, totalIn, recv_error>>
bufVars == <<all_pcm_data, consumed, evicted, prevChunk, prevFailed, failedBefore>>
genVars == <<nEmit, nAppend, nPostFail, texts, totalOut, step_token>>
egressVars == <<opus_writer, pcm_buffer, audio_calls, audio_sent>>
voiceVars == <<voice_prompt, lm_voice>>
\* the variables of a conversation on the engine (handle_conversation)
convVars == <<engineVars, flagVars, handlerVars, taskVars, ingressVars, bufVars,
              genVars, egressVars, voiceVars, setup_calls, raised_by>>

\* ---------------------------------------- the engine singleton (get_engine)
Callers == 1..NumCallers
NoEngine == 0

VARIABLES
    engine_global,    \* the module global _engine: NoEngine for None, else the
                      \* number of the PersonaPlexEngine object it refers to
    engines,          \* _initialized of each PersonaPlexEngine object created
    gpc,              \* where each caller's get_engine() coroutine is
    got,              \* the object get_engine() returned to the caller
    ncalls            \* get_engine() calls the caller has made

singletonVars == <<engine_global, engines, gpc, got, ncalls>>

InitSingleton ==
    /\ engine_global = NoEngine
    /\ engines = <<>>
    /\ gpc = [c \in Callers |-> "idle"]
    /\ got = [c \in Callers |-> NoEngine]
    /\ ncalls = [c \in Callers |-> 0]

\* ------------------------------------------- text to speech (main.py)
\* the characters of a response: a letter, a sentence end, a comma, a blank
Chars == {"a", ".", ",", " "}
Whitespace == {" "}
SentenceEnds == {".", "!", "?"}
CommaMarks == {","}
MaxBuffer == 3 * TTS_CHUNK_MIN_CHARS
Buffers == UNION {[1..n -> Chars] : n \in 0..MaxBuffer}
\* nothing, or one more character
Tails == {<<>>} \cup {<<c>> : c \in Chars}

VARIABLES
    flush_in,         \* the argument `buffer` of a call of _should_flush_tts
    flush_out         \* <<>> before the call, then <<what it returned>>

flushVars == <<flush_in, flush_out>>

InitFlushIdle ==
    /\ flush_in = <<>>
    /\ flush_out = <<>>

\* ------------------------------------ the cascaded pipeline (main.py)
\* what get_stt() returns: a WhisperSTT, a RemoteSTT or None
SttKinds == {"whisper", "remote", "none"}
\* a user text is a sequence of lower-case words
Texts == {<<"wifi">>, <<"my", "ssn">>, <<"ticket">>, <<"internal", "ticket">>}
\* the tokens a chat backend yields
Tokens == {<<"a">>, <<".">>, <<",", " ">>, <<" ", " ", "a">>}
\* controller.py lines 202 and 265, and build_ticket_draft: fixed texts
\* of the alphabet stand for them
Refusal == <<"a", " ", "a", ".">>
Draft == <<"a", ",", " ", "a">>
Answers == {<<"a">>, <<"a", ".", " ">>}

VARIABLES
    server,           \* "off", then "up" once startup() returned
    stt_kind,         \* what get_stt() returns
    retriever_loaded, \* get_retriever() returns a Retriever
    accepted,         \* websocket.accept() returned
    connected,        \* the 'connected' status was sent
    rpc,              \* where ws_audio and process_response_stream stand
    text_input,       \* the text process_response_stream handles
    audio_enabled,
    speaking,
    full_response,
    buffer,
    ws_sent,          \* types of the messages sent for the current response
    tts_passed,       \* the arguments of send_tts for the current response
    ntexts,           \* texts handled so far
    tokens_used,      \* tokens yielded so far
    history,          \* ConversationState.history
    issue_summary,    \* ConversationState.issue_summary, <<>> for None
    retriever_calls,  \* calls of retriever.query
    chat_calls,       \* calls of a chat backend
    sync_result       \* <<>>, or <<the last call of handle_user_text>>

serverVars == <<server, stt_kind, retriever_loaded, accepted, connected>>
streamVars == <<rpc, text_input, audio_enabled, speaking, full_response, buffer,
                ws_sent, tts_passed, ntexts, tokens_used>>
stateVars == <<history, issue_summary, retriever_calls, chat_calls, sync_result>>
respVars == <<serverVars, streamVars, stateVars>>

InitRespIdle ==
    /\ server = "off"
    /\ stt_kind = "whisper"
    /\ retriever_loaded = TRUE
    /\ accepted = FALSE
    /\ connected = FALSE
    /\ rpc = "new"
    /\ text_input = <<>>
    /\ audio_enabled = TRUE
    /\ speaking = FALSE
    /\ full_response = <<>>
    /\ buffer = <<>>
    /\ ws_sent = <<>>
    /\ tts_passed = <<>>
    /\ ntexts = 0
    /\ tokens_used = 0
    /\ history = <<>>
    /\ issue_summary = <<>>
    /\ retriever_calls = 0
    /\ chat_calls = 0
    /\ sync_result = <<>>

\* ----------------------------------------- WhisperSTT (stt_whisper.py)
sample_rate == 16000          \* line 49
min_duration_tenths == 5      \* line 51: 0.5 seconds
max_duration == 12            \* line 53: 12.0 seconds
silence_threshold == 250      \* line 55
STT_SILENCE_CHUNKS == 4       \* config.py line 87, the default
ChunkSamples == 4096          \* line 57: the samples of one chunk
ChunkBytes == 2 * ChunkSamples
\* the RMS energies of a chunk: silent, just silent, loud
RmsLevels == {0, silence_threshold, silence_threshold + 1}

VARIABLES
    stt_buffer,        \* len(self._buffer), in bytes
    silent_chunks,     \* self._silent_chunks
    has_speech,        \* self._has_speech
    stt_chunks,        \* calls of accept_audio so far
    stt_result         \* what the last call returned

sttVars == <<stt_buffer, silent_chunks, has_speech, stt_chunks, stt_result>>

InitStt ==
    /\ stt_buffer = 0
    /\ silent_chunks = 0
    /\ has_speech = FALSE
    /\ stt_chunks = 0
    /\ stt_result = "none"

\* ------------------------------------------------------- all the variables
appVars == <<singletonVars, flushVars, respVars, sttVars>>
InitApp == InitSingleton /\ InitFlushIdle /\ InitRespIdle /\ InitStt
\* what the actions of one part leave alone
exceptSingleton == <<convVars, flushVars, respVars, sttVars>>
exceptFlush == <<convVars, singletonVars, respVars, sttVars>>
exceptResp == <<convVars, singletonVars, flushVars, sttVars>>
exceptStt == <<convVars, singletonVars, flushVars, respVars>>
vars == <<convVars, appVars>>

\* ---------------------------------------------------------------- helpers
Finished(p) == p \in {"done", "failed", "cancelled"}
Running(s, t) == tpc[s][t] # "none" /\ ~Finished(tpc[s][t])
Range(q) == {q[i] : i \in 1..Len(q)}
LastN(q, n) == IF Len(q) <= n THEN q ELSE SubSeq(q, Len(q) - n + 1, Len(q))
Iota(a, n) == [i \in 1..n |-> a + i]

\* while session.is_active and not session.close_requested
LoopCondIgnoresClose(s, closeReq) == is_active[s]
LoopCond(s, closeReq) == is_active[s] /\ ~closeReq[s]
LoopHead(s, closeReq, nextpc) == IF LoopCond(s, closeReq) THEN nextpc ELSE "done"

HighWater == FrameSize * HighWaterFrames
LowWater == FrameSize * LowWaterFrames
\* int(self._mimi.sample_rate * 0.3), sample_rate = frame_size * 12.5
SendThreshold == (FrameSize * 375) \div 100

\* everything but the voice names the sessions were created with
InitRest ==
    /\ initialized = FALSE
    /\ lock = NoSession
    /\ lockWaiters = <<>>
    /\ is_active = [s \in Sessions |-> FALSE]
    /\ close_requested = [s \in Sessions |-> FALSE]
    /\ ready_for_audio = [s \in Sessions |-> FALSE]
    /\ hpc = [s \in Sessions |-> "idle"]
    /\ waited = [s \in Sessions |-> 0]
    /\ pendingQ = [s \in Sessions |-> <<>>]
    /\ joinTask = [s \in Sessions |-> "none"]
    /\ acquires = [s \in Sessions |-> 0]
    /\ releases = [s \in Sessions |-> 0]
    /\ tpc = [s \in Sessions |-> [t \in Tasks |-> "none"]]
    /\ cancelReq = [s \in Sessions |-> {}]
    /\ silence_count = [s \in Sessions |-> 0]
    /\ frames_received = [s \in Sessions |-> 0]
    /\ totalIn = [s \in Sessions |-> 0]
    /\ recv_error = [s \in Sessions |-> "none"]
    /\ all_pcm_data = [s \in Sessions |-> <<>>]
    /\ consumed = [s \in Sessions |-> <<>>]
    /\ evicted = [s \in Sessions |-> {}]
    /\ prevChunk = [s \in Sessions |-> <<>>]
    /\ prevFailed = [s \in Sessions |-> FALSE]
    /\ failedBefore = [s \in Sessions |-> FALSE]
    /\ nEmit = [s \in Sessions |-> 0]
    /\ nAppend = [s \in Sessions |-> 0]
    /\ nPostFail = [s \in Sessions |-> 0]
    /\ texts = [s \in Sessions |-> <<>>]
    /\ totalOut = [s \in Sessions |-> 0]
    /\ step_token = [s \in Sessions |-> <<>>]
    /\ opus_writer = [s \in Sessions |-> <<>>]
    /\ pcm_buffer = [s \in Sessions |-> <<>>]
    /\ audio_calls = [s \in Sessions |-> <<>>]
    /\ audio_sent = [s \in Sessions |-> <<>>]
    /\ lm_voice = NoPath
    /\ setup_calls = [s \in Sessions |-> <<>>]
    /\ raised_by = [s \in Sessions |-> "none"]

\* sessions that ask for a voice that is not in voice_prompt_dir
InitConv ==
    /\ voice_prompt = [s \in Sessions |-> [stem |-> "ghost", pt |-> FALSE]]
    /\ InitRest

Init == InitConv /\ InitApp

\* sessions that ask for any of the voice names
InitVoice ==
    /\ voice_prompt \in [Sessions -> VoiceNames]
    /\ InitRest
    /\ InitApp

\* ------------------------------------------------- the engine and its gate
\* PersonaPlexEngine.initialize sets self._initialized once everything is loaded
EngineInitialize ==
    /\ ~initialized
    /\ initialized' = TRUE
    /\ UNCHANGED <<appVars, voice_prompt, lm_voice, setup_calls, raised_by,
                   lock, lockWaiters, flagVars, handlerVars, taskVars,
                   ingressVars, bufVars, genVars, egressVars>>

\* the holder of self._lock after `async with self._lock` is left,
\* normally (raised = FALSE) or by an exception (raised = TRUE)
LockAfterExitLeak(s, raised) == IF raised THEN s ELSE NoSession
LockAfterExit(s, raised) == NoSession

\* leaving `async with self._lock`: Lock.release()
ExitGate(s, raised) ==
    /\ lock' = LockAfterExit(s, raised)
    /\ releases' = [releases EXCEPT ![s] = @ + (IF lock' = NoSession THEN 1 ELSE 0)]

\* lines 262-276: the path of the voice file, None when it does not exist;
\* "alice" and "alice.pt" name the same file
get_voice_prompt_path(name) ==
    IF VoiceFile(name.stem) = "absent" THEN NoPath ELSE name.stem

\* line 326: the voice file is loaded when there is one and it is not the
\* voice in effect
LoadsVoice(cur, name) ==
    get_voice_prompt_path(name) # NoPath /\ cur # get_voice_prompt_path(name)

\* lines 326-341: self._lm_gen.voice_prompt after the voice prompt block
VoiceAfterLoad(cur, name) ==
    IF LoadsVoice(cur, name) /\ VoiceFile(get_voice_prompt_path(name)) = "good"
    THEN get_voice_prompt_path(name)
    ELSE cur

\* lines 335-341: whether an exception of the load leaves the try
VoiceLoadEscapesCorrupt(cur, name) ==
    LoadsVoice(cur, name) /\ VoiceFile(get_voice_prompt_path(name)) = "corrupt"
VoiceLoadEscapes(cur, name) == FALSE

\* lines 356-358: reset_streaming of both codecs and of the model
ResetStreamingSkipped(calls) == calls
ResetStreaming(calls) ==
    calls \o <<"mimi.reset", "other_mimi.reset", "lm_gen.reset">>

\* lines 361-362: the priming step has returned, then the codec is reset
PrimeStreaming(calls) == calls \o <<"lm_gen.prime", "mimi.reset">>

\* lines 322-358: all calls return; seed_all raises; or a call after the
\* voice prompt block raises
SetupOutcomes == {"ok", "raise_seed", "raise_setup"}

\* lines 322-361: the lock is taken; seed, voice prompt, text prompt, Opus
\* streams and reset_streaming run without an await, then
\* step_system_prompts_async is awaited.  Any of the calls outside the
\* try of lines 327-341 may raise.  w is the value of the local `waited`,
\* which is gone (put back to 0) once handle_conversation is left.
Conditioning(s, w) ==
    /\ acquires' = [acquires EXCEPT ![s] = @ + 1]
    /\ \E o \in SetupOutcomes :
         /\ lm_voice' = IF o = "raise_seed" THEN lm_voice
                        ELSE VoiceAfterLoad(lm_voice, voice_prompt[s])
         /\ IF o = "ok" /\ ~VoiceLoadEscapes(lm_voice, voice_prompt[s])
            THEN /\ lock' = s
                 /\ hpc' = [hpc EXCEPT ![s] = "priming"]
                 /\ waited' = [waited EXCEPT ![s] = w]
                 /\ setup_calls' = [setup_calls EXCEPT ![s] = ResetStreaming(@)]
                 /\ UNCHANGED <<releases, raised_by>>
            ELSE /\ ExitGate(s, TRUE)
                 /\ hpc' = [hpc EXCEPT ![s] = "raised"]
                 /\ waited' = [waited EXCEPT ![s] = 0]
                 /\ UNCHANGED setup_calls
                 /\ raised_by' = [raised_by EXCEPT ![s] =
                                      IF o = "ok" THEN "voice" ELSE "setup"]
\* `async with self._lock`: Lock.acquire() returns at once when the lock is
\* free and nobody waits, else the caller queues
ArriveAtGate(s, w) ==
    IF lock = NoSession /\ lockWaiters = <<>>
    THEN /\ Conditioning(s, w)
         /\ UNCHANGED lockWaiters
    ELSE /\ lockWaiters' = Append(lockWaiters, s)
         /\ hpc' = [hpc EXCEPT ![s] = "wait_lock"]
         /\ waited' = [waited EXCEPT ![s] = w]
         /\ UNCHANGED <<lock, acquires, releases, lm_voice, setup_calls, raised_by>>

\* ------------------------------------------------------ handle_conversation
\* line 311, first evaluation of the wait loop's condition (max_wait > 0)
HandlerStart(s) ==
    /\ hpc[s] = "idle"
    /\ IF ~initialized
       THEN /\ hpc' = [hpc EXCEPT ![s] = "wait_init"]
            /\ UNCHANGED <<lock, lockWaiters, acquires, releases, waited,
                           lm_voice, setup_calls, raised_by>>
       ELSE ArriveAtGate(s, waited[s])
    /\ UNCHANGED <<appVars, voice_prompt,
                   initialized, flagVars, pendingQ, joinTask, taskVars,
                   ingressVars, bufVars, genVars, egressVars>>

\* line 311: the condition of the wait loop
KeepWaitingShort(init, w) == ~init /\ w + 1 < max_wait
KeepWaiting(init, w) == ~init /\ w < max_wait

\* line 315: the test after the wait loop
TimedOutNever(init) == FALSE
TimedOut(init) == ~init

\* lines 311-316: asyncio.sleep(1) returns, waited += 1, the condition is
\* evaluated again; after the loop an uninitialized engine is a RuntimeError.
\* cap: the engine is initialized before a session has polled cap times.
HandlerWaitWake(s, cap) ==
    /\ hpc[s] = "wait_init"
    /\ initialized \/ waited[s] + 1 < cap
    /\ IF KeepWaiting(initialized, waited[s] + 1)
       THEN /\ waited' = [waited EXCEPT ![s] = @ + 1]
            /\ UNCHANGED <<hpc, lock, lockWaiters, acquires, releases,
                           lm_voice, setup_calls, raised_by>>
       ELSE IF TimedOut(initialized)
            THEN /\ hpc' = [hpc EXCEPT ![s] = "raised"]
                 /\ waited' = [waited EXCEPT ![s] = 0]
                 /\ raised_by' = [raised_by EXCEPT ![s] = "timeout"]
                 /\ UNCHANGED <<lock, lockWaiters, acquires, releases, lm_voice,
                                setup_calls>>
            ELSE ArriveAtGate(s, waited[s] + 1)
    /\ UNCHANGED <<appVars, voice_prompt,
                   initialized, flagVars, pendingQ, joinTask, taskVars,
                   ingressVars, bufVars, genVars, egressVars>>

\* Lock.release() wakes the first waiter, which then holds the lock
HandlerLockGranted(s) ==
    /\ hpc[s] = "wait_lock"
    /\ lock = NoSession
    /\ lockWaiters # <<>> /\ Head(lockWaiters) = s
    /\ lockWaiters' = Tail(lockWaiters)
    /\ Conditioning(s, waited[s])
    /\ UNCHANGED <<appVars, voice_prompt,
                   initialized, flagVars, pendingQ, joinTask, taskVars,
                   ingressVars, bufVars, genVars, egressVars>>

\* lines 361-548: step_system_prompts_async returns or raises; on return the
\* flags are set, the three tasks are created and asyncio.wait is awaited
HandlerPrimed(s) ==
    /\ hpc[s] = "priming"
    /\ \E ok \in BOOLEAN :
         IF ok
         THEN /\ is_active' = [is_active EXCEPT ![s] = TRUE]
              /\ ready_for_audio' = [ready_for_audio EXCEPT ![s] = TRUE]
              /\ tpc' = [tpc EXCEPT ![s] = [t \in Tasks |-> "start"]]
              /\ hpc' = [hpc EXCEPT ![s] = "wait_first"]
              /\ setup_calls' = [setup_calls EXCEPT ![s] = PrimeStreaming(@)]
              /\ UNCHANGED <<lock, releases, waited, raised_by>>
         ELSE /\ ExitGate(s, TRUE)
              /\ hpc' = [hpc EXCEPT ![s] = "raised"]
              /\ waited' = [waited EXCEPT ![s] = 0]
              /\ raised_by' = [raised_by EXCEPT ![s] = "priming"]
              /\ UNCHANGED <<is_active, ready_for_audio, tpc, setup_calls>>
    /\ UNCHANGED <<appVars, voice_prompt, lm_voice,
                   initialized, lockWaiters, close_requested, pendingQ,
                   joinTask, acquires, cancelReq, ingressVars, bufVars, genVars,
                   egressVars>>

Orderings(S) == {q \in [1..Cardinality(S) -> S] : Range(q) = S}

\* lines 554-559: the for loop over `pending`, run from its top over the
\* tasks q until it suspends in `await task`, ends, or `await task` raises
\* what a task that had already failed raised
RECURSIVE CancelLoop(_, _)
CancelLoopNoJoin(s, q) == [kind |-> "end", task |-> "none", rest |-> <<>>]
CancelLoop(s, q) ==
    IF q = <<>>
    THEN [kind |-> "end", task |-> "none", rest |-> <<>>]
    ELSE IF tpc[s][Head(q)] = "failed"
         THEN [kind |-> "raise", task |-> "none", rest |-> <<>>]
         ELSE IF Finished(tpc[s][Head(q)])
              THEN CancelLoop(s, Tail(q))
              ELSE [kind |-> "join", task |-> Head(q), rest |-> Tail(q)]

\* line 555: the tasks task.cancel() is called on before `await task`
CancelTargetsNone(t) == {}
CancelTargets(t) == {t}

\* line 561: the value the finally block gives session.is_active
ActiveAfterFinallyStale(s) == is_active[s]
ActiveAfterFinally(s) == FALSE

\* line 561 and the end of `async with`: finally, then the lock is released.
\* handle_conversation is left, so its locals (and those of the three
\* coroutines it defined) no longer exist: they are put back to their
\* initial values, and the finished tasks of `tasks` are dropped.
Teardown(s, r) ==
    IF r.kind = "join"
    THEN /\ cancelReq' = [cancelReq EXCEPT ![s] = @ \cup CancelTargets(r.task)]
         /\ hpc' = [hpc EXCEPT ![s] = "join"]
         /\ joinTask' = [joinTask EXCEPT ![s] = r.task]
         /\ pendingQ' = [pendingQ EXCEPT ![s] = r.rest]
         /\ UNCHANGED <<is_active, lock, releases, tpc, waited, silence_count,
                        frames_received, recv_error, all_pcm_data, opus_writer,
                        pcm_buffer, raised_by>>
    ELSE /\ is_active' = [is_active EXCEPT ![s] = ActiveAfterFinally(s)]
         /\ ExitGate(s, r.kind = "raise")
         /\ hpc' = [hpc EXCEPT ![s] = IF r.kind = "raise" THEN "raised" ELSE "returned"]
         /\ raised_by' = [raised_by EXCEPT ![s] =
                              IF r.kind = "raise" THEN "task" ELSE @]
         /\ joinTask' = [joinTask EXCEPT ![s] = "none"]
         /\ pendingQ' = [pendingQ EXCEPT ![s] = <<>>]
         /\ waited' = [waited EXCEPT ![s] = 0]
         /\ silence_count' = [silence_count EXCEPT ![s] = 0]
         /\ frames_received' = [frames_received EXCEPT ![s] = 0]
         /\ recv_error' = [recv_error EXCEPT ![s] = "none"]
         /\ all_pcm_data' = [all_pcm_data EXCEPT ![s] = <<>>]
         /\ opus_writer' = [opus_writer EXCEPT ![s] = <<>>]
         /\ pcm_buffer' = [pcm_buffer EXCEPT ![s] = <<>>]
         /\ tpc' = [tpc EXCEPT ![s] =
                        [t \in Tasks |-> IF Finished(@[t]) THEN "none" ELSE @[t]]]
         /\ cancelReq' = [cancelReq EXCEPT ![s] = {t \in @ : ~Finished(tpc[s][t])}]

\* lines 548-561: asyncio.wait(FIRST_COMPLETED) returns once a task is done
HandlerWaitDone(s) ==
    /\ hpc[s] = "wait_first"
    /\ \E t \in Tasks : Finished(tpc[s][t])
    /\ \E q \in Orderings({t \in Tasks : ~Finished(tpc[s][t])}) :
         Teardown(s, CancelLoop(s, q))
    /\ UNCHANGED <<appVars, voice_prompt, lm_voice, setup_calls,
                   initialized, lockWaiters, close_requested, ready_for_audio,
                   acquires, totalIn, consumed, evicted, prevChunk,
                   prevFailed, failedBefore, genVars, audio_calls, audio_sent>>

\* lines 557-561: `await task` returns, the for loop goes on
HandlerJoined(s) ==
    /\ hpc[s] = "join"
    /\ Finished(tpc[s][joinTask[s]])
    /\ Teardown(s, CancelLoop(s, <<joinTask[s]>> \o pendingQ[s]))
    /\ UNCHANGED <<appVars, voice_prompt, lm_voice, setup_calls,
                   initialized, lockWaiters, close_requested, ready_for_audio,
                   acquires, totalIn, consumed, evicted, prevChunk,
                   prevFailed, failedBefore, genVars, audio_calls, audio_sent>>

\* session.close_requested is a public field the transport may set
ExternalClose(s) ==
    /\ hpc[s] \in {"wait_first", "join"}
    /\ ~close_requested[s]
    /\ close_requested' = [close_requested EXCEPT ![s] = TRUE]
    /\ UNCHANGED <<appVars, voice_prompt, lm_voice, setup_calls, raised_by,
                   engineVars, is_active, ready_for_audio, handlerVars, taskVars,
                   ingressVars, bufVars, genVars, egressVars>>

\* ------------------------------------------------------------- the tasks
\* a task on which cancel() was called gets CancelledError at the await it
\* is suspended in (or before its first step); none of the loops catches it
TaskCancelled(s, t) ==
    /\ t \in cancelReq[s]
    /\ Running(s, t)
    /\ tpc' = [tpc EXCEPT ![s][t] = "cancelled"]
    /\ UNCHANGED <<appVars, voice_prompt, lm_voice, setup_calls, raised_by,
                   engineVars, flagVars, handlerVars, cancelReq, ingressVars,
                   bufVars, genVars, egressVars>>

\* a task steps from the await it is suspended in unless cancel() was called
\* on it: then the await raises CancelledError (TaskCancelled)
CanStepThoughCancelled(s, t, p) == tpc[s][t] = p
CanStep(s, t, p) == tpc[s][t] = p /\ t \notin cancelReq[s]

\* the first step of a task: the loop condition, then the loop's first await
FirstAwait(t) ==
    IF t = "ingress" THEN "recv" ELSE IF t = "generate" THEN "alive" ELSE "sleep"

TaskStart(s, t) ==
    /\ CanStep(s, t, "start")
    /\ tpc' = [tpc EXCEPT ![s][t] = LoopHead(s, close_requested, FirstAwait(t))]
    /\ UNCHANGED <<appVars, voice_prompt, lm_voice, setup_calls, raised_by,
                   engineVars, flagVars, handlerVars, cancelReq, ingressVars,
                   bufVars, genVars, egressVars>>

\* lines 385, 416 and 431: session.close_requested = True
RequestCloseToggle(s) == [close_requested EXCEPT ![s] = ~@]
RequestCloseSkipped(s) == close_requested
RequestClose(s) == [close_requested EXCEPT ![s] = TRUE]

\* ------------------------------------------------- process_incoming_audio
\* line 383
SilenceExceeded(n) == n > MAX_SILENCE_LOOPS

\* lines 407-410
AppendPcmFront(acc, pcm) == pcm \o acc
AppendPcm(acc, pcm) == acc \o pcm

\* the messages of the exceptions the Opus decoder raises, and the words
\* of a lowercased message that lines 414-415 look for
DecodeErrors == {"channel closed", "invalid channel count", "stream closed",
                 "corrupted stream"}
Mentions(msg, word) ==
    CASE word = "channel" -> msg \in {"channel closed", "invalid channel count"}
      [] word = "closed" -> msg \in {"channel closed", "stream closed"}
      [] OTHER -> FALSE

\* lines 414-415: the test that makes a decode failure end the input
StopsInputBoth(msg) == Mentions(msg, "channel") /\ Mentions(msg, "closed")
StopsInput(msg) == Mentions(msg, "channel") \/ Mentions(msg, "closed")

\* line 390: silence_count after a frame was received
SilenceAfterFrameKept(n) == n
SilenceAfterFrame(n) == 0

\* lines 380-419: receive_audio() returns None, returns a frame or raises.
\* sizes: the sample counts read_pcm() may return for a frame;
\* idleCap: the longest run of empty polls the transport produces;
\* frameCap: the number of frames the transport delivers.
IngressRecv(s, sizes, idleCap, frameCap) ==
    /\ CanStep(s, "ingress", "recv")
    /\ \/ \* audio_data is None
          /\ silence_count[s] < idleCap
          /\ silence_count' = [silence_count EXCEPT ![s] = @ + 1]
          /\ IF SilenceExceeded(silence_count'[s])
             THEN /\ close_requested' = RequestClose(s)
                  /\ tpc' = [tpc EXCEPT ![s]["ingress"] = "done"]
             ELSE /\ tpc' = [tpc EXCEPT ![s]["ingress"] = "sleep"]
                  /\ UNCHANGED close_requested
          /\ recv_error' = [recv_error EXCEPT ![s] = "none"]
          /\ UNCHANGED <<frames_received, totalIn, all_pcm_data>>
       \/ \* receive_audio raises: line 380 is outside the try
          /\ tpc' = [tpc EXCEPT ![s]["ingress"] = "failed"]
          /\ UNCHANGED <<close_requested, silence_count, frames_received,
                         totalIn, recv_error, all_pcm_data>>
       \/ \* a frame
          /\ frames_received[s] < frameCap
          /\ silence_count' = [silence_count EXCEPT ![s] = SilenceAfterFrame(@)]
          /\ frames_received' = [frames_received EXCEPT ![s] = @ + 1]
          /\ \/ \E n \in sizes :
                  /\ all_pcm_data' = [all_pcm_data EXCEPT ![s] =
                         IF n = 0 THEN @ ELSE AppendPcm(@, Iota(totalIn[s], n))]
                  /\ totalIn' = [totalIn EXCEPT ![s] = @ + n]
                  /\ tpc' = [tpc EXCEPT ![s]["ingress"] =
                                 LoopHead(s, close_requested, "recv")]
                  /\ recv_error' = [recv_error EXCEPT ![s] = "none"]
                  /\ UNCHANGED close_requested
             \/ \* append_bytes or read_pcm raises
                \E msg \in DecodeErrors :
                  /\ recv_error' = [recv_error EXCEPT ![s] = msg]
                  /\ IF StopsInput(msg)
                     THEN /\ close_requested' = RequestClose(s)
                          /\ tpc' = [tpc EXCEPT ![s]["ingress"] = "done"]
                     ELSE /\ tpc' = [tpc EXCEPT ![s]["ingress"] =
                                         LoopHead(s, close_requested, "recv")]
                          /\ UNCHANGED close_requested
                  /\ UNCHANGED <<totalIn, all_pcm_data>>
    /\ UNCHANGED <<appVars, voice_prompt, lm_voice, setup_calls, raised_by,
                   engineVars, is_active, ready_for_audio, handlerVars, cancelReq,
                   consumed, evicted, prevChunk, prevFailed, failedBefore, genVars,
                   egressVars>>

\* lines 387-388 and 379: asyncio.sleep(0.005) returns, continue
IngressWake(s) ==
    /\ CanStep(s, "ingress", "sleep")
    /\ tpc' = [tpc EXCEPT ![s]["ingress"] = LoopHead(s, close_requested, "recv")]
    /\ UNCHANGED <<appVars, voice_prompt, lm_voice, setup_calls, raised_by,
                   engineVars, flagVars, handlerVars, cancelReq, ingressVars,
                   bufVars, genVars, egressVars>>

\* ------------------------------------------------------ process_audio_loop
\* lines 429-434: a new iteration begins; is_alive() returns or raises
\* (line 429 is outside the try)
GenAlive(s) ==
    /\ CanStep(s, "generate", "alive")
    /\ \/ /\ tpc' = [tpc EXCEPT ![s]["generate"] = "sleep1"]
          /\ UNCHANGED close_requested
       \/ /\ close_requested' = RequestClose(s)
          /\ tpc' = [tpc EXCEPT ![s]["generate"] = "done"]
       \/ /\ tpc' = [tpc EXCEPT ![s]["generate"] = "failed"]
          /\ UNCHANGED close_requested
    /\ step_token' = [step_token EXCEPT ![s] = <<>>]
    /\ UNCHANGED <<appVars, voice_prompt, lm_voice, setup_calls, raised_by,
                   engineVars, is_active, ready_for_audio, handlerVars, cancelReq,
                   ingressVars, bufVars, nEmit, nAppend, nPostFail, texts, totalOut,
                   egressVars>>

\* lines 436-438: the eviction
EvictKeepAll(pcm) == pcm
EvictOneFrameLess(pcm) ==
    IF Len(pcm) > HighWater THEN LastN(pcm, LowWater - FrameSize) ELSE pcm
Evict(pcm) == IF Len(pcm) > HighWater THEN LastN(pcm, LowWater) ELSE pcm

\* lines 449-450: the chunk taken and what is left
TakeChunk(pcm) == SubSeq(pcm, 1, FrameSize)
DropChunkKept(pcm) == pcm
DropChunk(pcm) == SubSeq(pcm, FrameSize + 1, Len(pcm))

\* line 473: opus_writer.append_pcm(pcm_out), called once for a step result
AppendResponseTwice(buf, pcm) == buf \o pcm \o pcm
AppendResponse(buf, pcm) == buf \o pcm

\* lines 461-462: `if tokens is None: continue`
TokensIsNoneNever(o) == FALSE
TokensIsNone(o) == o = "none"

\* lines 480-484: the text of one token handed to send_text
ForwardTextTwice(q, tok) == q \o <<tok, tok>>
ForwardTextDropped(q, tok) == q
ForwardText(q, tok) == Append(q, tok)

\* line 487 and 428: where the loop goes when the try block raised
AfterGenErrorExit(s) == "failed"
AfterGenError(s) == "sleep3"

\* what one iteration's try block may do: encode or step raises; step
\* returns None; the assert, a decode or append_pcm raises; id_to_piece
\* raises for the text token; or everything up to send_text returns
GenOutcomes == {"pre_raise", "none", "post_raise", "text_raise", "emit"}

\* lines 434-487: asyncio.sleep(0.001) returns; eviction; with less than a
\* frame buffered sleep again, else take one chunk, encode, step, decode,
\* append, and await send_text for a token that is not padding.  A chunk of
\* frame_size samples encodes to one code frame, so the for loop of line 459
\* runs _lm_gen.step once.
\* outcomes: what encode/step/decode may do in this specification.
GenTick(s, outcomes) ==
    /\ CanStep(s, "generate", "sleep1")
    /\ LET kept == Evict(all_pcm_data[s])
           chunk == TakeChunk(kept)
       IN
       /\ evicted' = [evicted EXCEPT ![s] = @ \cup (Range(all_pcm_data[s]) \ Range(kept))]
       /\ IF Len(kept) < FrameSize
          THEN /\ all_pcm_data' = [all_pcm_data EXCEPT ![s] = kept]
               /\ tpc' = [tpc EXCEPT ![s]["generate"] = "sleep2"]
               /\ UNCHANGED <<consumed, prevChunk, prevFailed, failedBefore, genVars,
                              opus_writer>>
          ELSE /\ all_pcm_data' = [all_pcm_data EXCEPT ![s] = DropChunk(kept)]
               /\ consumed' = [consumed EXCEPT ![s] = @ \o chunk]
               /\ prevChunk' = [prevChunk EXCEPT ![s] = chunk]
               /\ failedBefore' = [failedBefore EXCEPT ![s] = prevFailed[s]]
               /\ \E o \in outcomes :
                    CASE o = "pre_raise" ->
                           \* encode or step raises
                           /\ prevFailed' = [prevFailed EXCEPT ![s] = TRUE]
                           /\ tpc' = [tpc EXCEPT ![s]["generate"] = AfterGenError(s)]
                           /\ UNCHANGED <<genVars, opus_writer>>
                      [] o # "pre_raise" /\ TokensIsNone(o) ->
                           \* tokens is None
                           /\ prevFailed' = [prevFailed EXCEPT ![s] = FALSE]
                           /\ tpc' = [tpc EXCEPT ![s]["generate"] =
                                          LoopHead(s, close_requested, "alive")]
                           /\ UNCHANGED <<genVars, opus_writer>>
                      [] o = "post_raise" ->
                           \* the assert, a decode or append_pcm raises
                           /\ prevFailed' = [prevFailed EXCEPT ![s] = TRUE]
                           /\ nEmit' = [nEmit EXCEPT ![s] = @ + 1]
                           /\ nPostFail' = [nPostFail EXCEPT ![s] = @ + 1]
                           /\ \E tok \in TokenIds :
                                step_token' = [step_token EXCEPT ![s] = <<tok>>]
                           /\ tpc' = [tpc EXCEPT ![s]["generate"] = AfterGenError(s)]
                           /\ UNCHANGED <<nAppend, texts, totalOut, opus_writer>>
                      [] o = "text_raise" ->
                           \* id_to_piece raises for a token that is not padding
                           /\ prevFailed' = [prevFailed EXCEPT ![s] = TRUE]
                           /\ nEmit' = [nEmit EXCEPT ![s] = @ + 1]
                           /\ nAppend' = [nAppend EXCEPT ![s] = @ + 1]
                           /\ opus_writer' = [opus_writer EXCEPT ![s] =
                                  AppendResponse(@, Iota(totalOut[s], FrameSize))]
                           /\ totalOut' = [totalOut EXCEPT ![s] = @ + FrameSize]
                           /\ \E tok \in TokenIds \ PaddingTokens :
                                step_token' = [step_token EXCEPT ![s] = <<tok>>]
                           /\ tpc' = [tpc EXCEPT ![s]["generate"] = AfterGenError(s)]
                           /\ UNCHANGED <<nPostFail, texts>>
                      [] OTHER ->
                           /\ prevFailed' = [prevFailed EXCEPT ![s] = FALSE]
                           /\ nEmit' = [nEmit EXCEPT ![s] = @ + 1]
                           /\ nAppend' = [nAppend EXCEPT ![s] = @ + 1]
                           /\ opus_writer' = [opus_writer EXCEPT ![s] =
                                  AppendResponse(@, Iota(totalOut[s], FrameSize))]
                           /\ totalOut' = [totalOut EXCEPT ![s] = @ + FrameSize]
                           /\ \E tok \in TokenIds :
                                /\ step_token' = [step_token EXCEPT ![s] = <<tok>>]
                                /\ IF tok \in PaddingTokens
                                   THEN /\ tpc' = [tpc EXCEPT ![s]["generate"] =
                                                LoopHead(s, close_requested, "alive")]
                                        /\ UNCHANGED texts
                                   ELSE /\ tpc' = [tpc EXCEPT ![s]["generate"] = "send_text"]
                                        /\ texts' = [texts EXCEPT ![s] = ForwardText(@, tok)]
                           /\ UNCHANGED nPostFail
    /\ UNCHANGED <<appVars, voice_prompt, lm_voice, setup_calls, raised_by,
                   engineVars, flagVars, handlerVars, cancelReq, ingressVars,
                   pcm_buffer, audio_calls, audio_sent>>

\* lines 441-442 and 487, then 428: a sleep returns, the condition is evaluated
GenResume(s) ==
    /\ \/ CanStep(s, "generate", "sleep2")
       \/ CanStep(s, "generate", "sleep3")
    /\ tpc' = [tpc EXCEPT ![s]["generate"] = LoopHead(s, close_requested, "alive")]
    /\ UNCHANGED <<appVars, voice_prompt, lm_voice, setup_calls, raised_by,
                   engineVars, flagVars, handlerVars, cancelReq, ingressVars,
                   bufVars, genVars, egressVars>>

\* lines 484-487: send_text returns or raises (inside the try)
GenTextSent(s) ==
    /\ CanStep(s, "generate", "send_text")
    /\ \/ tpc' = [tpc EXCEPT ![s]["generate"] = LoopHead(s, close_requested, "alive")]
       \/ tpc' = [tpc EXCEPT ![s]["generate"] = AfterGenError(s)]
    /\ UNCHANGED <<appVars, voice_prompt, lm_voice, setup_calls, raised_by,
                   engineVars, flagVars, handlerVars, cancelReq, ingressVars,
                   bufVars, genVars, egressVars>>

\* ---------------------------------------------------------- send_audio_loop
\* line 515: the batch is sent once it holds the threshold
BatchReadyAlways(n) == TRUE
BatchReady(n) == n >= SendThreshold

\* line 536: pcm_buffer after send_audio returned
BufferAfterSendKept(buf) == buf
BufferAfterSend(buf) == <<>>

\* lines 502-538: the bytes read are decoded and batched
EgressDecode(s) ==
    IF opus_writer[s] = <<>>
    THEN /\ tpc' = [tpc EXCEPT ![s]["egress"] = LoopHead(s, close_requested, "sleep")]
         /\ UNCHANGED <<pcm_buffer, audio_calls>>
    ELSE \/ \* the temporary reader raises, or decodes nothing (line 509)
            /\ tpc' = [tpc EXCEPT ![s]["egress"] =
                           LoopHead(s, close_requested, "sleep")]
            /\ UNCHANGED <<pcm_buffer, audio_calls>>
         \/ /\ pcm_buffer' = [pcm_buffer EXCEPT ![s] = @ \o opus_writer[s]]
            /\ IF BatchReady(Len(pcm_buffer'[s]))
               THEN \/ \* lines 517-530 return: await send_audio(wav_bytes)
                       /\ audio_calls' = [audio_calls EXCEPT ![s] =
                                              Append(@, pcm_buffer'[s])]
                       /\ tpc' = [tpc EXCEPT ![s]["egress"] = "send"]
                    \/ \* building the WAV raises
                       /\ tpc' = [tpc EXCEPT ![s]["egress"] =
                                      LoopHead(s, close_requested, "sleep")]
                       /\ UNCHANGED audio_calls
               ELSE /\ tpc' = [tpc EXCEPT ![s]["egress"] =
                                   LoopHead(s, close_requested, "sleep")]
                    /\ UNCHANGED audio_calls

\* lines 499-531: the pacing sleep returns; what opus_writer holds is read
\* (read_bytes, line 500, is outside the try) and decoded (which may raise),
\* added to pcm_buffer, and once the threshold is reached the batch is
\* handed to send_audio
EgressTick(s) ==
    /\ CanStep(s, "egress", "sleep")
    /\ \/ \* read_bytes raises
          /\ tpc' = [tpc EXCEPT ![s]["egress"] = "failed"]
          /\ UNCHANGED <<opus_writer, pcm_buffer, audio_calls>>
       \/ /\ opus_writer' = [opus_writer EXCEPT ![s] = <<>>]
          /\ EgressDecode(s)
    /\ UNCHANGED <<appVars, voice_prompt, lm_voice, setup_calls, raised_by,
                   engineVars, flagVars, handlerVars, cancelReq, ingressVars,
                   bufVars, genVars, audio_sent>>

\* lines 531-538: send_audio returns, then pcm_buffer = []; or it raises and
\* the except of line 537 is reached with pcm_buffer as it was
EgressSent(s) ==
    /\ CanStep(s, "egress", "send")
    /\ \/ /\ pcm_buffer' = [pcm_buffer EXCEPT ![s] = BufferAfterSend(@)]
          /\ audio_sent' = [audio_sent EXCEPT ![s] = Append(@, pcm_buffer[s])]
       \/ UNCHANGED <<pcm_buffer, audio_sent>>
    /\ tpc' = [tpc EXCEPT ![s]["egress"] = LoopHead(s, close_requested, "sleep")]
    /\ UNCHANGED <<appVars, voice_prompt, lm_voice, setup_calls, raised_by,
                   engineVars, flagVars, handlerVars, cancelReq, ingressVars,
                   bufVars, genVars, opus_writer, audio_calls>>

\* ------------------------------------------------------------- get_engine
\* personaplex.py line 572: `if _engine is None`
NeedsEngineAlways(e) == TRUE
NeedsEngine(e) == e = NoEngine

\* what lines 573-580 may do: the constructor raises; initialize() raises;
\* both return
CreateOutcomes == {"ctor_raise", "init_raise", "ok"}

\* a caller calls get_engine(): the coroutine exists and is ready to run
GetEngineCall(c) ==
    /\ gpc[c] # "called"
    /\ ncalls[c] < MaxCalls
    /\ gpc' = [gpc EXCEPT ![c] = "called"]
    /\ got' = [got EXCEPT ![c] = NoEngine]
    /\ ncalls' = [ncalls EXCEPT ![c] = @ + 1]
    /\ UNCHANGED <<exceptSingleton, engine_global, engines>>

\* personaplex.py lines 568-582: the body of get_engine().  initialize()
\* (lines 179-239) awaits nothing, so `await _engine.initialize()` does not
\* suspend and the body runs to its return or its exception in one piece.
\* _engine is assigned (line 573) before initialize() is called (line 580).
GetEngineRun(c) ==
    /\ gpc[c] = "called"
    /\ IF NeedsEngine(engine_global)
       THEN \E o \in CreateOutcomes :
              IF o = "ctor_raise"
              THEN /\ gpc' = [gpc EXCEPT ![c] = "raised"]
                   /\ UNCHANGED <<engine_global, engines, got>>
              ELSE /\ engines' = Append(engines, o = "ok")
                   /\ engine_global' = Len(engines')
                   /\ IF o = "ok"
                      THEN /\ gpc' = [gpc EXCEPT ![c] = "returned"]
                           /\ got' = [got EXCEPT ![c] = engine_global']
                      ELSE /\ gpc' = [gpc EXCEPT ![c] = "raised"]
                           /\ UNCHANGED got
       ELSE /\ gpc' = [gpc EXCEPT ![c] = "returned"]
            /\ got' = [got EXCEPT ![c] = engine_global]
            /\ UNCHANGED <<engine_global, engines>>
    /\ UNCHANGED <<exceptSingleton, ncalls>>

\* ------------------------------------------------------- _should_flush_tts
\* main.py lines 117 and 123: re.search(r'(?<=[marks])\s+', buffer).  The
\* match starts at the first whitespace character that follows one of the
\* marks (0 when there is none) and runs to the end of that whitespace.
BreakAt(b, marks) ==
    LET hits == {k \in 2..Len(b) : b[k] \in Whitespace /\ b[k - 1] \in marks}
    IN IF hits = {} THEN 0 ELSE CHOOSE k \in hits : \A j \in hits : k <= j
RunEnd(b, k) ==
    CHOOSE e \in k..Len(b) :
        /\ \A i \in k..e : b[i] \in Whitespace
        /\ e = Len(b) \/ b[e + 1] \notin Whitespace

\* lines 119 and 125: buffer[:m.start() + 1], buffer[m.end():]
SplitAtDropsNext(b, k) ==
    [split |-> TRUE,
     to_speak |-> SubSeq(b, 1, k),
     remainder |-> SubSeq(b, RunEnd(b, k) + 2, Len(b))]
SplitAt(b, k) ==
    [split |-> TRUE,
     to_speak |-> SubSeq(b, 1, k),
     remainder |-> SubSeq(b, RunEnd(b, k) + 1, Len(b))]
\* the return value None
NoSplit == [split |-> FALSE, to_speak |-> <<>>, remainder |-> <<>>]

\* line 128: the forced flush
ForcesFlushNever(n) == FALSE
ForcesFlush(n) == n >= TTS_CHUNK_MIN_CHARS * 3

\* lines 113-131
should_flush_tts(b) ==
    IF Len(b) < TTS_CHUNK_MIN_CHARS
    THEN NoSplit
    ELSE IF BreakAt(b, SentenceEnds) # 0
         THEN SplitAt(b, BreakAt(b, SentenceEnds))
         ELSE IF 2 * Len(b) >= 3 * TTS_CHUNK_MIN_CHARS /\ BreakAt(b, CommaMarks) # 0
              THEN SplitAt(b, BreakAt(b, CommaMarks))
              ELSE IF ForcesFlush(Len(b))
                   THEN [split |-> TRUE, to_speak |-> b, remainder |-> <<>>]
                   ELSE NoSplit

\* one call of _should_flush_tts
ApplyFlush ==
    /\ flush_out = <<>>
    /\ flush_out' = <<should_flush_tts(flush_in)>>
    /\ UNCHANGED <<exceptFlush, flush_in>>

\* -------------------------------------------- the conversation controller
\* `kw in lowered` (controller.py lines 32 and 86), at the grain of words
Contains(text, kw) ==
    \E i \in 1..(Len(text) - Len(kw) + 1) : SubSeq(text, i, i + Len(kw) - 1) = kw

PrivateKeywords ==
    {<<"internal">>, <<"employee", "record">>, <<"student", "record">>,
     <<"ssn">>, <<"social", "security">>}
requires_private_data(text) == \E kw \in PrivateKeywords : Contains(text, kw)

INTENT_TICKET == "ticket_draft"
INTENT_TROUBLESHOOT == "troubleshoot"
INTENT_UNKNOWN == "unknown"
TicketKeywords ==
    {<<"ticket">>, <<"help", "request">>, <<"support", "request">>,
     <<"case">>, <<"submit">>}
detect_intent(text) ==
    IF \E kw \in TicketKeywords : Contains(text, kw)
    THEN INTENT_TICKET
    ELSE INTENT_TROUBLESHOOT

\* state.py lines 15-16
Turn(role, content) == [role |-> role, content |-> content]
add_turn(h, role, content) == Append(h, Turn(role, content))
\* state.py lines 18-22
update_from_user(summary, text) ==
    IF summary = <<>> THEN text ELSE summary \o <<" ">> \o text

\* controller.py lines 203 and 266: what the refusal records
RefusalTurnsWithUser(text) == <<Turn("user", text), Turn("assistant", Refusal)>>
RefusalTurns(text) == <<Turn("assistant", Refusal)>>

\* The common beginning of handle_user_text_stream (lines 201-218) and of
\* handle_user_text (lines 264-280), up to the retriever.
Preamble(h, summary, text) ==
    IF requires_private_data(text)
    THEN [history |-> h \o RefusalTurns(text), issue_summary |-> summary,
          precomputed |-> TRUE, response |-> Refusal, intent |-> INTENT_UNKNOWN]
    ELSE IF detect_intent(text) = INTENT_TICKET
         THEN [history |-> add_turn(add_turn(h, "user", text), "assistant", Draft),
               issue_summary |-> update_from_user(summary, text),
               precomputed |-> TRUE, response |-> Draft, intent |-> INTENT_TICKET]
         ELSE [history |-> add_turn(h, "user", text),
               issue_summary |-> update_from_user(summary, text),
               precomputed |-> FALSE, response |-> <<>>,
               intent |-> detect_intent(text)]

\* str.strip()
Strip(str) ==
    LET idx == {i \in 1..Len(str) : str[i] \notin Whitespace}
    IN IF idx = {}
       THEN <<>>
       ELSE SubSeq(str, CHOOSE i \in idx : \A j \in idx : i <= j,
                        CHOOSE i \in idx : \A j \in idx : i >= j)

\* ---------------------------------------------------- ws_audio (main.py)
\* lines 69-76: startup() calls get_stt() and get_retriever() and accepts None
Startup ==
    /\ server = "off"
    /\ server' = "up"
    /\ UNCHANGED <<exceptResp, stt_kind, retriever_loaded, accepted, connected,
                   streamVars, stateVars>>

\* line 147: stt_model.model exists on a WhisperSTT only
HasModel(kind) == kind = "whisper"

\* lines 138-162: accept, build the session's STT from get_stt() (without a
\* model, line 147 raises AttributeError and ws_audio fails), send the
\* 'connected' status (sent tells whether send_json returned)
Connect(sent) ==
    /\ server = "up"
    /\ rpc = "new"
    /\ accepted' = TRUE
    /\ connected' = (HasModel(stt_kind) /\ sent)
    /\ rpc' = IF ~HasModel(stt_kind) THEN "failed"
              ELSE IF sent THEN "idle" ELSE "closed"
    /\ UNCHANGED <<exceptResp, server, stt_kind, retriever_loaded, text_input,
                   audio_enabled, speaking, full_response, buffer, ws_sent,
                   tts_passed, ntexts, tokens_used, stateVars>>

Listening == rpc \in {"idle", "returned"}

\* lines 248-254: the loop is back at receive_text, the locals of the last
\* process_response_stream are gone, and a 'config' message arrives
ReceiveConfig(enabled) ==
    /\ Listening
    /\ audio_enabled' = enabled
    /\ rpc' = "idle"
    /\ text_input' = <<>>
    /\ full_response' = <<>>
    /\ buffer' = <<>>
    /\ ws_sent' = <<>>
    /\ tts_passed' = <<>>
    /\ UNCHANGED <<exceptResp, serverVars, speaking, ntexts, tokens_used,
                   stateVars>>

\* lines 256-259 and 276-277 call process_response_stream, whose lines
\* 180-187 run up to the first chunk of the stream
ReceiveText(text) ==
    /\ Listening
    /\ ntexts < MaxTexts
    /\ ntexts' = ntexts + 1
    /\ rpc' = "meta"
    /\ text_input' = text
    /\ speaking' = TRUE
    /\ full_response' = <<>>
    /\ buffer' = <<>>
    /\ ws_sent' = <<>>
    /\ tts_passed' = <<>>
    /\ UNCHANGED <<exceptResp, serverVars, audio_enabled, tokens_used, stateVars>>

\* line 242: the message of the except branch
ErrorReplyNone == <<>>
ErrorReply == <<"error">>

\* lines 241-244: the except branch sends 'error'; when that send raises
\* too, process_response_stream raises
Except(sent, error_sent) ==
    IF error_sent
    THEN [pc |-> "returned", sent |-> sent \o ErrorReply]
    ELSE [pc |-> "raised", sent |-> sent]

TtsOutcomes == {"ok", "tts_silent", "tts_raise"}
\* lines 164-177: send_tts(text)
send_tts(text, sent, passed, o) ==
    IF Strip(text) = <<>>
    THEN [raised |-> FALSE, sent |-> sent, passed |-> Append(passed, text)]
    ELSE [raised |-> o = "tts_raise",
          sent |-> IF o = "ok" THEN Append(sent, "tts") ELSE sent,
          passed |-> Append(passed, text)]

MetaOutcomes == TtsOutcomes \cup {"query_raise", "meta_raise", "token_raise", "final_raise"}
\* The first chunk: handle_user_text_stream runs to its first yield
\* (controller.py lines 201-218), process_response_stream handles the
\* 'meta' chunk (main.py lines 190-211).
StreamMeta(o, error_sent) ==
    /\ rpc = "meta"
    /\ LET pre == Preamble(history, issue_summary, text_input)
           queried == ~pre.precomputed /\ retriever_loaded
           spoken == IF audio_enabled
                     THEN send_tts(pre.response, ws_sent \o <<"meta", "token">>,
                                   tts_passed, o)
                     ELSE [raised |-> FALSE,
                           sent |-> ws_sent \o <<"meta", "token">>,
                           passed |-> tts_passed]
           out ==
               IF queried /\ o = "query_raise"
               THEN Except(ws_sent, error_sent) @@ [full |-> <<>>, passed |-> tts_passed]
               ELSE IF o = "meta_raise"
               THEN Except(ws_sent, error_sent) @@ [full |-> <<>>, passed |-> tts_passed]
               ELSE IF ~pre.precomputed
               THEN [pc |-> "chat", sent |-> Append(ws_sent, "meta"),
                     full |-> <<>>, passed |-> tts_passed]
               ELSE IF o = "token_raise"
               THEN Except(Append(ws_sent, "meta"), error_sent)
                        @@ [full |-> pre.response, passed |-> tts_passed]
               ELSE IF spoken.raised
               THEN Except(spoken.sent, error_sent)
                        @@ [full |-> pre.response, passed |-> spoken.passed]
               ELSE IF o = "final_raise"
               THEN Except(spoken.sent, error_sent)
                        @@ [full |-> pre.response, passed |-> spoken.passed]
               ELSE [pc |-> "returned", sent |-> Append(spoken.sent, "final"),
                     full |-> pre.response, passed |-> spoken.passed]
       IN /\ history' = pre.history
          /\ issue_summary' = pre.issue_summary
          /\ retriever_calls' = IF queried THEN retriever_calls + 1
                                           ELSE retriever_calls
          /\ rpc' = out.pc
          /\ ws_sent' = out.sent
          /\ full_response' = out.full
          /\ tts_passed' = out.passed
          /\ speaking' = (out.pc = "chat")
    /\ UNCHANGED <<exceptResp, serverVars, text_input, audio_enabled, buffer,
                   ntexts, tokens_used, chat_calls, sync_result>>

TokenOutcomes == TtsOutcomes \cup {"chat_raise", "token_raise"}
\* A 'token' chunk: the chat backend yields a token (controller.py lines
\* 250-257), process_response_stream handles it (main.py lines 213-229).
StreamToken(token, o, error_sent) ==
    /\ rpc \in {"chat", "tokens"}
    /\ tokens_used < MaxTokens
    /\ chat_calls' = IF rpc = "chat" THEN chat_calls + 1 ELSE chat_calls
    /\ IF o = "chat_raise"
       THEN /\ rpc' = Except(ws_sent, error_sent).pc
            /\ ws_sent' = Except(ws_sent, error_sent).sent
            /\ speaking' = FALSE
            /\ UNCHANGED <<full_response, buffer, tts_passed, tokens_used>>
       ELSE LET result == should_flush_tts(buffer \o token)
                flushes == audio_enabled /\ result.split
                speaks == flushes /\ Strip(result.to_speak) # <<>>
                spoken == IF speaks
                          THEN send_tts(result.to_speak, Append(ws_sent, "token"),
                                        tts_passed, o)
                          ELSE [raised |-> FALSE, sent |-> Append(ws_sent, "token"),
                                passed |-> tts_passed]
                out == IF o = "token_raise"
                       THEN Except(ws_sent, error_sent)
                                @@ [buf |-> buffer \o token, passed |-> tts_passed]
                       ELSE IF spoken.raised
                       THEN Except(spoken.sent, error_sent)
                                @@ [buf |-> result.remainder, passed |-> spoken.passed]
                       ELSE [pc |-> "tokens", sent |-> spoken.sent,
                             buf |-> IF flushes THEN result.remainder
                                                ELSE buffer \o token,
                             passed |-> spoken.passed]
            IN /\ tokens_used' = tokens_used + 1
               /\ full_response' = full_response \o token
               /\ buffer' = out.buf
               /\ rpc' = out.pc
               /\ ws_sent' = out.sent
               /\ tts_passed' = out.passed
               /\ speaking' = (out.pc = "tokens")
    /\ UNCHANGED <<exceptResp, serverVars, text_input, audio_enabled, ntexts,
                   history, issue_summary, retriever_calls, sync_result>>

EndOutcomes == TtsOutcomes \cup {"final_raise"}
\* The stream ends: handle_user_text_stream records the answer
\* (controller.py line 259), process_response_stream flushes the buffer
\* and sends 'final' (main.py lines 231-239).
StreamEnd(o, error_sent) ==
    /\ rpc \in {"chat", "tokens"}
    /\ chat_calls' = IF rpc = "chat" THEN chat_calls + 1 ELSE chat_calls
    /\ history' = add_turn(history, "assistant", full_response)
    /\ LET spoken == IF audio_enabled /\ Strip(buffer) # <<>>
                     THEN send_tts(buffer, ws_sent, tts_passed, o)
                     ELSE [raised |-> FALSE, sent |-> ws_sent, passed |-> tts_passed]
           out == IF spoken.raised \/ o = "final_raise"
                  THEN Except(spoken.sent, error_sent)
                  ELSE [pc |-> "returned", sent |-> Append(spoken.sent, "final")]
       IN /\ rpc' = out.pc
          /\ ws_sent' = out.sent
          /\ tts_passed' = spoken.passed
    /\ speaking' = FALSE
    /\ UNCHANGED <<exceptResp, serverVars, text_input, audio_enabled,
                   full_response, buffer, ntexts, tokens_used, issue_summary,
                   retriever_calls, sync_result>>

SyncOutcomes == {"ok", "query_raise", "chat_raise"}
\* controller.py lines 263-314: handle_user_text(state, text, retriever)
HandleUserText(text, o, answer) ==
    /\ rpc \in {"new", "idle"}
    /\ ntexts < MaxTexts
    /\ ntexts' = ntexts + 1
    /\ LET pre == Preamble(history, issue_summary, text)
           queried == ~pre.precomputed /\ retriever_loaded
           query_raised == queried /\ o = "query_raise"
           chatted == ~pre.precomputed /\ ~query_raised
           chat_raised == chatted /\ o = "chat_raise"
           answered == chatted /\ ~chat_raised
       IN /\ issue_summary' = pre.issue_summary
          /\ retriever_calls' = IF queried THEN retriever_calls + 1
                                           ELSE retriever_calls
          /\ chat_calls' = IF chatted THEN chat_calls + 1 ELSE chat_calls
          /\ history' = IF answered
                        THEN add_turn(pre.history, "assistant", Strip(answer))
                        ELSE pre.history
          /\ sync_result' =
                 <<[text |-> text,
                    raised |-> query_raised \/ chat_raised,
                    response |-> IF pre.precomputed THEN pre.response
                                 ELSE IF answered THEN Strip(answer) ELSE <<>>,
                    intent |-> pre.intent]>>
    /\ UNCHANGED <<exceptResp, serverVars, rpc, text_input, audio_enabled,
                   speaking, full_response, buffer, ws_sent, tts_passed,
                   tokens_used>>

NextResponse ==
    \/ Startup
    \/ \E sent \in BOOLEAN : Connect(sent)
    \/ \E enabled \in BOOLEAN : ReceiveConfig(enabled)
    \/ \E text \in Texts : ReceiveText(text)
    \/ \E o \in MetaOutcomes, e \in BOOLEAN : StreamMeta(o, e)
    \/ \E token \in Tokens, o \in TokenOutcomes, e \in BOOLEAN : StreamToken(token, o, e)
    \/ \E o \in EndOutcomes, e \in BOOLEAN : StreamEnd(o, e)
    \/ \E text \in Texts, o \in SyncOutcomes, answer \in Answers :
           HandleUserText(text, o, answer)

\* ------------------------------------------------------------ WhisperSTT
\* line 82: duration = len(self._buffer) / (self._sample_rate * 2), compared
\* with a number of seconds given in tenths
LastsTenths(bytes, tenths) == 10 * bytes >= tenths * sample_rate * 2

\* lines 135-139: reset() leaves an empty buffer
\* lines 106-133: _transcribe() returns a final result and resets; below
\* sample_rate bytes it returns an empty text without transcribing
Transcribed(bytes, heard) ==
    IF bytes < sample_rate THEN "final_empty"
    ELSE IF heard THEN "final_text" ELSE "final_empty"

\* lines 73-104: accept_audio(pcm_bytes) for a chunk of ChunkBytes bytes with
\* RMS energy rms; heard tells whether Whisper returns a text
AcceptAudio(rms, heard) ==
    /\ stt_chunks < MaxChunks
    /\ stt_chunks' = stt_chunks + 1
    /\ LET bytes == stt_buffer + ChunkBytes
           speech == IF rms > silence_threshold THEN TRUE ELSE has_speech
           silent == IF rms > silence_threshold THEN 0 ELSE silent_chunks + 1
           forced == LastsTenths(bytes, 10 * max_duration) /\ speech
           paused == /\ speech
                     /\ silent >= STT_SILENCE_CHUNKS
                     /\ LastsTenths(bytes, min_duration_tenths)
       IN IF forced \/ paused
          THEN /\ stt_buffer' = 0
               /\ silent_chunks' = 0
               /\ has_speech' = FALSE
               /\ stt_result' = Transcribed(bytes, heard)
          ELSE /\ stt_buffer' = bytes
               /\ silent_chunks' = silent
               /\ has_speech' = speech
               /\ stt_result' = IF speech /\ LastsTenths(bytes, min_duration_tenths)
                                THEN "partial" ELSE "collecting"
    /\ UNCHANGED exceptStt

NextStt == \E rms \in RmsLevels, heard \in BOOLEAN : AcceptAudio(rms, heard)

\* ----------------------------------------------------------- specifications
\* handle_conversation(s) and the life of its tasks, for an engine that is
\* initialized within initCap polls; the step that takes the gate after
\* waiting for it is HandlerLockGranted
LifecycleStep(s, initCap) ==
    \/ HandlerStart(s)
    \/ HandlerWaitWake(s, initCap)
    \/ HandlerPrimed(s)
    \/ HandlerWaitDone(s)
    \/ HandlerJoined(s)
    \/ \E t \in Tasks : TaskStart(s, t)
    \/ \E t \in Tasks : TaskCancelled(s, t)

\* A session over a transport that delivers no audio (so that send_text and
\* send_audio are never awaited) and that may set close_requested.
QuietStep(s) ==
    \/ LifecycleStep(s, MaxInitPolls)
    \/ ExternalClose(s)
    \/ IngressRecv(s, {}, MaxIdlePolls, 0)
    \/ IngressWake(s)
    \/ GenAlive(s)
    \/ GenTick(s, {})
    \/ GenResume(s)
    \/ EgressTick(s)

\* All sessions on one engine.
Next ==
    \/ EngineInitialize
    \/ \E s \in Sessions : HandlerLockGranted(s) \/ QuietStep(s)

Spec == Init /\ [][Next]_vars

\* The event loop's guarantees: a coroutine whose awaited task or wait is
\* done is resumed, and a cancelled task gets its CancelledError.  Nothing
\* is assumed of the transport callbacks: a loop suspended in one of them
\* may stay there for ever.
TeardownFairness(s) ==
    /\ WF_vars(HandlerWaitDone(s))
    /\ WF_vars(HandlerJoined(s))
    /\ \A t \in Tasks : WF_vars(TaskCancelled(s, t))

\* One session on the engine, with these guarantees.
NextOne == EngineInitialize \/ QuietStep(1)
LiveSpec == Init /\ [][NextOne]_vars /\ TeardownFairness(1)

\* One session over a transport that may stay silent for as long as the
\* silence budget lasts and whose frames decode to no samples; is_alive()
\* and the egress loop's pacing sleep do not return meanwhile, so that the
\* generate and egress loops stay in their first await until cancelled.
NextSilence ==
    \/ EngineInitialize
    \/ LifecycleStep(1, MaxInitPolls)
    \/ IngressRecv(1, {0}, MAX_SILENCE_LOOPS + 1, MaxFrames)
    \/ IngressWake(1)

SpecSilence == Init /\ [][NextSilence]_vars

\* One session over a transport that delivers its audio in bursts, with a
\* model that answers nothing: encode and step either raise or return None.
BurstSizes == {1, BurstFrames * FrameSize}

NextBuffer ==
    \/ EngineInitialize
    \/ LifecycleStep(1, MaxInitPolls)
    \/ IngressRecv(1, BurstSizes, 0, MaxFrames)
    \/ GenAlive(1)
    \/ GenTick(1, {"pre_raise", "none"})
    \/ GenResume(1)
    \/ EgressTick(1)

SpecBuffer == Init /\ [][NextBuffer]_vars

\* One session that receives a few frames of one codec frame each, with
\* every result of the codec and the model; the response audio stays below
\* the egress loop's threshold, so that send_audio is not awaited.
NextGen ==
    \/ EngineInitialize
    \/ LifecycleStep(1, MaxInitPolls)
    \/ IngressRecv(1, {FrameSize}, 0, MaxFrames)
    \/ GenAlive(1)
    \/ GenTick(1, GenOutcomes)
    \/ GenResume(1)
    \/ GenTextSent(1)
    \/ EgressTick(1)

SpecGen == Init /\ [][NextGen]_vars

\* Session 1 on an engine that may stay uninitialized for the whole wait,
\* and session 2, which polls only once the engine is initialized; the
\* sessions are followed until their loops are launched.
NextTimeout ==
    \/ EngineInitialize
    \/ HandlerStart(1)
    \/ HandlerWaitWake(1, max_wait + 1)
    \/ HandlerStart(2)
    \/ HandlerWaitWake(2, MaxInitPolls)
    \/ \E s \in {1, 2} : HandlerLockGranted(s) \/ HandlerPrimed(s)

SpecTimeout == Init /\ [][NextTimeout]_vars

\* Sessions 1 and 2 asking for any of the voice names, on a transport that
\* only answers is_alive().
NextVoice ==
    \/ EngineInitialize
    \/ \E s \in {1, 2} :
         \/ HandlerLockGranted(s)
         \/ LifecycleStep(s, MaxInitPolls)
         \/ GenAlive(s)

SpecVoice == InitVoice /\ [][NextVoice]_vars

\* One session that receives one packet of one codec frame more than fills
\* a batch of the egress loop, with a model that answers every frame, so
\* that the egress loop awaits send_audio and then gets more audio.
NextStream ==
    \/ EngineInitialize
    \/ LifecycleStep(1, MaxInitPolls)
    \/ IngressRecv(1, {(StreamFrames + 1) * FrameSize}, 0, 1)
    \/ GenAlive(1)
    \/ GenTick(1, {"emit"})
    \/ GenResume(1)
    \/ GenTextSent(1)
    \/ EgressTick(1)
    \/ EgressSent(1)

SpecStream == Init /\ [][NextStream]_vars

\* One session that the transport may close at any moment, over a transport
\* that may poll empty and delivers one packet that fills a batch, so that
\* the loops can be suspended in every await they have.
NextClose ==
    \/ EngineInitialize
    \/ LifecycleStep(1, MaxInitPolls)
    \/ ExternalClose(1)
    \/ IngressRecv(1, {StreamFrames * FrameSize}, MaxIdlePolls, 1)
    \/ IngressWake(1)
    \/ GenAlive(1)
    \/ GenTick(1, {"emit"})
    \/ GenResume(1)
    \/ GenTextSent(1)
    \/ EgressTick(1)
    \/ EgressSent(1)

SpecClose == Init /\ [][NextClose]_vars

\* Callers of get_engine() on one event loop, each calling it up to MaxCalls
\* times, whatever the constructor and initialize() do.
NextSingleton == \E c \in Callers : GetEngineCall(c) \/ GetEngineRun(c)

SpecSingleton == Init /\ [][NextSingleton]_vars

\* _should_flush_tts called on any buffer of up to MaxBuffer + 1 characters.
InitFlush ==
    /\ InitConv
    /\ InitSingleton
    /\ InitRespIdle
    /\ InitStt
    /\ \E b \in Buffers, t \in Tails : flush_in = b \o t
    /\ flush_out = <<>>

SpecFlush == InitFlush /\ [][ApplyFlush]_vars

\* One /ws/audio connection of the cascaded pipeline, with any STT and
\* retriever availability.
InitResponse ==
    /\ InitConv
    /\ InitSingleton
    /\ InitFlushIdle
    /\ InitStt
    /\ server = "off"
    /\ stt_kind \in SttKinds
    /\ retriever_loaded \in BOOLEAN
    /\ accepted = FALSE
    /\ connected = FALSE
    /\ rpc = "new"
    /\ text_input = <<>>
    /\ audio_enabled = TRUE
    /\ speaking = FALSE
    /\ full_response = <<>>
    /\ buffer = <<>>
    /\ ws_sent = <<>>
    /\ tts_passed = <<>>
    /\ ntexts = 0
    /\ tokens_used = 0
    /\ history = <<>>
    /\ issue_summary = <<>>
    /\ retriever_calls = 0
    /\ chat_calls = 0
    /\ sync_result = <<>>

SpecResponse == InitResponse /\ [][NextResponse]_vars

\* One WhisperSTT fed chunk after chunk.
SpecStt == Init /\ [][NextStt]_vars

\* ------------------------------------------------------------------ claims
Terminated(s) == hpc[s] \in {"returned", "raised"}

\* C1: across the sessions of one engine, at most one has is_active = TRUE,
\* in every reachable state of concurrent handle_conversation calls.
C1_AtMostOneActive ==
    \A s1 \in Sessions : \A s2 \in Sessions :
        is_active[s1] /\ is_active[s2] => s1 = s2

\* a session is active while a concurrent call waits for the gate
C1_Witness ==
    \E s1 \in Sessions : \E s2 \in Sessions :
        is_active[s1] /\ hpc[s2] = "wait_lock"

\* C2: for every session, in every reachable state (setup, active,
\* teardown, after handle_conversation returned or raised),
\* ready_for_audio implies is_active.
C2_ReadyImpliesActive ==
    \A s \in Sessions : ready_for_audio[s] => is_active[s]

\* C3: every acquisition of the gate is followed by exactly one release on
\* every exit path: a session holds the gate exactly while it has acquired
\* once more than it has released, a terminated session has released what it
\* acquired, and a free gate with a waiting session can be acquired by it.
C3_GateReleased ==
    /\ \A s \in Sessions :
         /\ acquires[s] - releases[s] = (IF lock = s THEN 1 ELSE 0)
         /\ Terminated(s) => lock # s /\ releases[s] = acquires[s]
    /\ lock = NoSession /\ lockWaiters # <<>>
          => ENABLED HandlerLockGranted(Head(lockWaiters))

\* one session left the gate by an exception during conditioning, another
\* one was active and returned, and the gate is free
C3_Witness ==
    \E s1 \in Sessions : \E s2 \in Sessions :
        /\ hpc[s1] = "raised" /\ ~ready_for_audio[s1]
        /\ acquires[s1] = 1 /\ releases[s1] = 1
        /\ hpc[s2] = "returned" /\ ready_for_audio[s2]
        /\ acquires[s2] = 1 /\ releases[s2] = 1
        /\ lock = NoSession

\* C4: while a loop of a session is still running, that session holds the
\* gate: the gate is never free, nor held by a later session, before the
\* three loops have finished or been cancelled and joined.
C4_LoopsJoinedBeforeRelease ==
    \A s \in Sessions : \A t \in Tasks : Running(s, t) => lock = s

\* a session whose teardown re-raised a loop's exception has released the
\* gate, and a later session runs its loops under it
C4_Witness ==
    \E s1 \in Sessions : \E s2 \in Sessions :
        /\ s1 # s2
        /\ hpc[s1] = "raised" /\ ready_for_audio[s1]
        /\ lock = s2
        /\ \E t \in Tasks : Running(s2, t)

\* C5: once one of the three loops has finished, the session eventually is
\* terminated (is_active = FALSE, gate released), also when another loop
\* stays suspended in a transport callback for ever.
C5_FirstCompletedTerminates ==
    (\E t \in Tasks : Finished(tpc[1][t]))
        ~> (Terminated(1) /\ ~is_active[1] /\ lock # 1)

\* the generate loop has finished, the ingress loop is suspended in
\* receive_audio and has been cancelled
C5_Witness ==
    \E s \in Sessions :
        /\ hpc[s] = "join"
        /\ Finished(tpc[s]["generate"])
        /\ tpc[s]["ingress"] = "recv"
        /\ "ingress" \in cancelReq[s]

\* C6: once the ingress loop has polled MAX_SILENCE_LOOPS (5000) times in a
\* row without a frame, close_requested is true within one polling interval:
\* whatever the poll that follows returns, close_requested is set after it.
C6_SilenceBudgetCloses ==
    [][(/\ CanStep(1, "ingress", "recv")
        /\ silence_count[1] = MAX_SILENCE_LOOPS
        /\ silence_count'[1] # silence_count[1]
        /\ hpc'[1] = hpc[1])
          => close_requested'[1]]_vars

\* the steps of process_audio_loop that run lines 436-487 once
GenIteration(s) == CanStep(s, "generate", "sleep1") /\ tpc'[s]["generate"] # "sleep1"
\* those of them that take a chunk from the accumulator
GenConsumes(s) == GenIteration(s) /\ consumed'[s] # consumed[s]

\* C7: the accumulator does not stay above the high-water mark
\* (50 x frame_size samples) for more than one generate-loop iteration:
\* whatever ingress had appended, after every iteration of the generate loop
\* its length is at most the high-water mark.
C7_HighWaterWithinOneIteration ==
    [][GenIteration(1) => Len(all_pcm_data'[1]) <= HighWater]_vars

\* ingress has pushed the accumulator above the mark and an iteration of the
\* generate loop has evicted
C7_Witness ==
    /\ totalIn[1] > HighWater
    /\ evicted[1] # {}
    /\ Len(all_pcm_data[1]) <= HighWater

\* C8: when the generate loop runs with more than 50 x frame_size samples
\* buffered, that iteration keeps exactly the 10 x frame_size most recent
\* samples (the frame it then takes, followed by what it leaves in the
\* accumulator), and the loop does not fail.
C8_EvictsToLowWater ==
    [][(GenIteration(1) /\ Len(all_pcm_data[1]) > HighWater)
          => /\ prevChunk'[1] \o all_pcm_data'[1] = LastN(all_pcm_data[1], LowWater)
             /\ Len(prevChunk'[1] \o all_pcm_data'[1]) = LowWaterFrames * FrameSize
             /\ tpc'[1]["generate"] # "failed"]_vars

\* after an eviction the frame taken is the oldest of the ten most recent
\* frames, and nine frames are left
C8_Witness ==
    /\ evicted[1] # {}
    /\ prevChunk[1] # <<>>
    /\ prevChunk[1][1] = totalIn[1] - LowWater + 1
    /\ Len(all_pcm_data[1]) = LowWater - FrameSize

\* what C10 says of the iteration in which encode/step/decode raises: the
\* loop goes on to its brief sleep, close_requested is left as it was and the
\* chunk is no longer in the accumulator
C10_RaisingIteration ==
    (GenConsumes(1) /\ prevFailed'[1])
        => /\ tpc'[1]["generate"] = "sleep3"
           /\ close_requested'[1] = close_requested[1]
           /\ Range(prevChunk'[1]) \cap Range(all_pcm_data'[1]) = {}

\* C10 as stated: if encode/step/decode raises for frame N the loop does not
\* exit, does not set close_requested, does not reprocess frame N, and the
\* next frame it consumes is frame N+1.
C10_ResumesWithNextFrame ==
    [][/\ C10_RaisingIteration
       /\ (GenConsumes(1) /\ prevFailed[1])
            => prevChunk'[1][1] = prevChunk[1][FrameSize] + 1]_vars

\* C10 as amended: ... and the next frame it consumes comes after frame N,
\* with nothing between them but samples the eviction dropped (frame N+1
\* when no eviction ran in between).
C10_ResumesAfterFrame ==
    [][/\ C10_RaisingIteration
       /\ (GenConsumes(1) /\ prevFailed[1])
            => /\ prevChunk'[1][1] > prevChunk[1][FrameSize]
               /\ \A i \in (prevChunk[1][FrameSize] + 1)..(prevChunk'[1][1] - 1) :
                     i \in evicted'[1]
               /\ (evicted'[1] = {} => prevChunk'[1][1] = prevChunk[1][FrameSize] + 1)]_vars

\* encode or step raised for a frame, and the loop has gone on, taken the
\* frame that follows it and is about to poll is_alive again
C10_Witness ==
    /\ failedBefore[1]
    /\ ~prevFailed[1]
    /\ Len(consumed[1]) >= 2 * FrameSize
    /\ consumed[1][Len(consumed[1]) - FrameSize] + 1 = prevChunk[1][1]
    /\ tpc[1]["generate"] = "alive"
    /\ ~close_requested[1]

\* C9 as stated: for every response frame the model step emits (a result of
\* _lm_gen.step that is not None), exactly one decoded PCM frame is appended
\* to the outgoing audio buffer.
C9_ExactlyOnePcmPerResponse ==
    [][nEmit'[1] = nEmit[1] + 1
          => opus_writer'[1] = opus_writer[1] \o Iota(totalOut[1], FrameSize)]_vars

\* C9 as amended: for every response frame the model step emits, at most one
\* decoded PCM frame is appended to the outgoing audio buffer: exactly one
\* when the assert, the decodes and append_pcm succeed, none when one of
\* them raises.
C9_OnePcmPerDecodedResponse ==
    [][nEmit'[1] = nEmit[1] + 1
          => \/ /\ nPostFail'[1] = nPostFail[1]
                /\ nAppend'[1] = nAppend[1] + 1
                /\ opus_writer'[1] = opus_writer[1] \o Iota(totalOut[1], FrameSize)
             \/ /\ nPostFail'[1] = nPostFail[1] + 1
                /\ nAppend'[1] = nAppend[1]
                /\ opus_writer'[1] = opus_writer[1]]_vars

\* the model step has emitted two response frames: one was decoded and
\* appended, the decode of the other raised
C9_Witness ==
    /\ nEmit[1] = 2
    /\ nAppend[1] = 1
    /\ nPostFail[1] = 1
    /\ totalOut[1] = FrameSize

\* C11: no exception raised inside a loop (by a transport callback, the codec
\* or the model) propagates past the loop's boundary: no loop's task ever
\* ends with an exception.
C11_NoLoopRaises ==
    \A s \in Sessions : \A t \in Tasks : tpc[s][t] # "failed"

\* C12: handle_conversation raises the engine-not-ready error only when the
\* 300th one-second poll finds the engine uninitialized, it does raise it
\* then, and a poll that finds the engine initialized never raises it.
C12_TimeoutAfterFullWait ==
    [][hpc[1] = "wait_init" /\ hpc'[1] # "wait_init"
          => /\ raised_by'[1] = "timeout" <=> (~initialized /\ waited[1] + 1 = max_wait)
             /\ raised_by'[1] = "timeout" \/ initialized]_vars

\* the engine was never initialized and session 1 has raised the
\* engine-not-ready error
C12_Witness ==
    /\ raised_by[1] = "timeout"
    /\ hpc[1] = "raised"
    /\ ~initialized

\* C20: a session that fails the readiness timeout never acquires the gate
\* (the gate is only ever acquired on an initialized engine), never sets
\* is_active or ready_for_audio, and its raise leaves the engine's state
\* (initialized flag, gate, waiters, voice in effect) as it was.
C20_TimeoutLeavesEngine ==
    /\ [](\A s \in {1, 2} :
            /\ acquires[s] > 0 => initialized
            /\ raised_by[s] = "timeout"
                 => /\ acquires[s] = 0 /\ lock # s /\ s \notin Range(lockWaiters)
                    /\ ~is_active[s] /\ ~ready_for_audio[s])
    /\ [][\A s \in {1, 2} :
            raised_by'[s] = "timeout" /\ raised_by[s] # "timeout"
                => UNCHANGED <<engineVars, lm_voice>>]_vars

\* session 1 failed the timeout, the engine was initialized afterwards and
\* session 2 is active on it
C20_Witness ==
    /\ raised_by[1] = "timeout"
    /\ initialized
    /\ is_active[2] /\ lock = 2

\* C13: in a session whose model step returns no output for any input frame,
\* send_audio is never called (and never awaited) and send_text is never
\* called, whatever amount of audio came in.
C13_SilentModelSendsNothing ==
    /\ audio_calls[1] = <<>>
    /\ texts[1] = <<>>
    /\ tpc[1]["egress"] # "send"
    /\ tpc[1]["generate"] # "send_text"

\* more than the high-water mark of audio came in, the generate loop has
\* consumed frames without a response and both loops are still running
C13_Witness ==
    /\ totalIn[1] > HighWater
    /\ Len(consumed[1]) >= 2 * FrameSize
    /\ nEmit[1] = 0
    /\ tpc[1]["generate"] = "alive"
    /\ tpc[1]["egress"] = "sleep"
    /\ audio_calls[1] = <<>> /\ texts[1] = <<>>

\* C15: once close_requested of a session is true, no step (of a loop, of
\* conditioning or of teardown) sets it back to false.
C15_CloseNeverCleared ==
    [][\A s \in Sessions : close_requested[s] => close_requested'[s]]_vars

\* a session was closed while active, was torn down and has returned with
\* the flag still set
C15_Witness ==
    \E s \in Sessions :
        /\ close_requested[s]
        /\ hpc[s] = "returned"
        /\ ~is_active[s]

\* C19: an iteration of the generate loop that consumes an input frame
\* consumes exactly one and produces at most one response frame (at most one
\* PCM frame appended to the outgoing buffer, at most one text token
\* forwarded), and no other step produces any.
C19_AtMostOneResponsePerFrame ==
    [][/\ GenConsumes(1)
          => /\ Len(consumed'[1]) = Len(consumed[1]) + FrameSize
             /\ nEmit'[1] <= nEmit[1] + 1
             /\ nAppend'[1] <= nAppend[1] + 1
             /\ Len(opus_writer'[1]) <= Len(opus_writer[1]) + FrameSize
             /\ Len(texts'[1]) <= Len(texts[1]) + 1
       /\ ~GenConsumes(1)
          => /\ nAppend'[1] = nAppend[1]
             /\ Len(opus_writer'[1]) <= Len(opus_writer[1])
             /\ texts'[1] = texts[1]]_vars

\* two input frames were consumed: one got a response frame with a text
\* token, the other got none
C19_Witness ==
    /\ Len(consumed[1]) = 2 * FrameSize
    /\ nEmit[1] = 1
    /\ nAppend[1] = 1
    /\ Len(texts[1]) = 1

\* the voice the session asks for is missing from voice_prompt_dir, or its
\* file fails to load
VoiceUnresolved(s) == VoiceFile(voice_prompt[s].stem) # "good"

\* C17: a voice that is missing or fails to load is never what makes
\* handle_conversation raise, and a session asking for such a voice that got
\* through setup is Active: is_active and ready_for_audio are set and the
\* three loops are launched.
C17_VoiceFailureNotFatal ==
    \A s \in {1, 2} :
        /\ raised_by[s] # "voice"
        /\ VoiceUnresolved(s) /\ hpc[s] = "wait_first"
              => /\ is_active[s] /\ ready_for_audio[s]
                 /\ \A t \in Tasks : tpc[s][t] # "none"

\* a session whose voice file failed to load is Active with its loops
\* running, after a session whose voice was missing was Active and returned
C17_Witness ==
    \E s1 \in {1, 2} : \E s2 \in {1, 2} :
        /\ VoiceFile(voice_prompt[s1].stem) = "corrupt"
        /\ hpc[s1] = "wait_first" /\ is_active[s1] /\ ready_for_audio[s1]
        /\ \A t \in Tasks : Running(s1, t)
        /\ VoiceFile(voice_prompt[s2].stem) = "absent"
        /\ hpc[s2] = "returned" /\ ready_for_audio[s2]

\* C18: while a session whose voice could not be resolved is active, the
\* voice in effect on the engine is empty (and so is not the voice an earlier
\* session loaded).
C18_UnresolvedVoiceRunsUnconditioned ==
    \A s \in {1, 2} :
        is_active[s] /\ VoiceUnresolved(s) => lm_voice = NoPath

\* C16: a batch for which send_audio failed is discarded: no sample is
\* handed to send_audio in two batches (a batch that was sent is emptied, so
\* only a retry can hand a sample over again).
C16_FailedBatchDiscarded ==
    \A i \in 1..Len(audio_calls[1]) : \A j \in 1..Len(audio_calls[1]) :
        i < j => Range(audio_calls[1][i]) \cap Range(audio_calls[1][j]) = {}

\* the most awaits a loop suspended at p still goes through before it
\* evaluates its loop condition (lines 379, 428 and 498)
LoopRank(t, p) ==
    CASE t = "ingress" /\ p = "recv" -> 2
      [] t = "generate" /\ p = "alive" -> 4
      [] t = "generate" /\ p = "sleep1" -> 3
      [] t = "generate" /\ p = "send_text" -> 2
      [] t = "egress" /\ p = "sleep" -> 2
      [] OTHER -> 1

\* the gate of a terminated session: released as often as acquired, at most once
GateReleasedOnce(s) ==
    Terminated(s) => releases[s] = acquires[s] /\ acquires[s] <= 1 /\ lock # s

\* C14 as stated: with close_requested set, each loop exits at its next
\* suspension point, that is when it is next resumed, and the gate is
\* released exactly once.
C14_ExitsAtNextSuspension ==
    /\ [](GateReleasedOnce(1))
    /\ [][\A t \in Tasks :
            close_requested[1] /\ Running(1, t) /\ tpc'[1][t] # tpc[1][t]
                => Finished(tpc'[1][t])]_vars

\* C14 as amended: with close_requested set, each loop exits when it next
\* evaluates its loop condition; until then every resumption takes it one
\* await closer to it (at most 2 awaits for ingress and egress, 4 for
\* generate), and the gate is released exactly once.
C14_ExitsAtNextLoopTest ==
    /\ [](GateReleasedOnce(1))
    /\ [][\A t \in Tasks :
            close_requested[1] /\ Running(1, t) /\ tpc'[1][t] # tpc[1][t]
                => \/ Finished(tpc'[1][t])
                   \/ LoopRank(t, tpc'[1][t]) < LoopRank(t, tpc[1][t])]_vars

\* the session was closed by the transport while its loops were suspended:
\* ingress and egress have seen the flag and exited, generate is suspended
\* in send_text and has not tested its loop condition yet
C14_Witness ==
    /\ close_requested[1]
    /\ hpc[1] = "wait_first"
    /\ totalIn[1] > 0
    /\ tpc[1]["ingress"] = "done"
    /\ tpc[1]["egress"] = "done"
    /\ tpc[1]["generate"] = "send_text"

C22_ClosesAtBudget ==
    silence_count[1] = MAX_SILENCE_LOOPS
        => close_requested[1] /\ tpc[1]["ingress"] = "done"

\* C23: every frame received by the ingress loop puts the silence counter
\* back to zero, also a frame that decodes to zero samples or fails to
\* decode; so the silence close is taken only by an empty poll that ends an
\* uninterrupted run of more than MAX_SILENCE_LOOPS empty polls.
C23_FrameResetsSilence ==
    /\ [][frames_received'[1] = frames_received[1] + 1
             => silence_count'[1] = 0]_vars
    /\ [][(/\ CanStep(1, "ingress", "recv")
            /\ ~close_requested[1] /\ close_requested'[1]
            /\ recv_error'[1] = "none")
             => /\ frames_received'[1] = frames_received[1]
                /\ silence_count'[1] = silence_count[1] + 1
                /\ silence_count[1] >= MAX_SILENCE_LOOPS]_vars

\* a frame arrived (of zero samples, or one that failed to decode), and the
\* silence close came after a full run of empty polls counted from zero
C23_Witness ==
    /\ frames_received[1] >= 1
    /\ silence_count[1] = MAX_SILENCE_LOOPS + 1
    /\ close_requested[1]
    /\ tpc[1]["ingress"] = "done"

\* C24: in a generate-loop iteration in which is_alive() returns false the
\* loop sets close_requested and ends without taking a frame from the
\* accumulator, stepping the model or sending text, in that iteration and
\* ever after.
C24_NotAliveStopsGeneration ==
    /\ [][(tpc[1]["generate"] = "alive" /\ tpc'[1]["generate"] = "done")
             => /\ close_requested'[1]
                /\ all_pcm_data'[1] = all_pcm_data[1]
                /\ consumed'[1] = consumed[1]
                /\ nEmit'[1] = nEmit[1]
                /\ texts'[1] = texts[1]]_vars
    /\ [][tpc[1]["generate"] = "done"
             => /\ consumed'[1] = consumed[1]
                /\ nEmit'[1] = nEmit[1]
                /\ texts'[1] = texts[1]]_vars

\* is_alive() returned false after a frame had been consumed, with a whole
\* frame still buffered and the ingress loop not yet at its next test
C24_Witness ==
    /\ hpc[1] = "wait_first"
    /\ tpc[1]["generate"] = "done"
    /\ tpc[1]["ingress"] = "recv"
    /\ close_requested[1]
    /\ consumed[1] # <<>>
    /\ Len(all_pcm_data[1]) >= FrameSize

\* C25: the generate loop consumes input samples in arrival order: what it
\* has consumed is a run of whole frames of adjacent samples, taken from
\* the samples ingress appended, each later than the one before; and as long
\* as nothing was evicted it is the prefix of the input stream.
C25_ConsumedInArrivalOrder ==
    LET c == consumed[1] IN
    /\ Range(c) \subseteq 1..totalIn[1]
    /\ Len(c) % FrameSize = 0
    /\ \A i \in 1..(Len(c) - 1) :
           IF i % FrameSize = 0 THEN c[i] < c[i + 1] ELSE c[i + 1] = c[i] + 1
    /\ evicted[1] = {} => c = Iota(0, Len(c))

\* after an eviction the loop went on with the oldest sample that was kept
C25_Witness ==
    /\ evicted[1] # {}
    /\ Len(consumed[1]) >= 2 * FrameSize
    /\ consumed[1][1] = totalIn[1] - LowWater + 1
    /\ hpc[1] = "wait_first"

\* C26: under every interleaving of the ingress loop and the generate loop
\* on the accumulator no sample is lost or duplicated: while the session's
\* loops exist, the samples appended are the samples consumed, the samples
\* evicted and the samples still buffered, each counted once.
C26_SamplesConserved ==
    hpc[1] \in {"wait_first", "join"}
        => /\ Range(consumed[1]) \cup evicted[1] \cup Range(all_pcm_data[1])
                  = 1..totalIn[1]
           /\ Len(consumed[1]) + Cardinality(evicted[1]) + Len(all_pcm_data[1])
                  = totalIn[1]

\* both loops are running, and there are samples of each kind
C26_Witness ==
    /\ hpc[1] = "wait_first"
    /\ Running(1, "ingress") /\ Running(1, "generate")
    /\ consumed[1] # <<>>
    /\ evicted[1] # {}
    /\ all_pcm_data[1] # <<>>

\* C27 as stated: the send_text calls are, in order, the non-padding text
\* tokens the model produced: every step result whose text token is not 0
\* or 3 is forwarded, and no other.
C27_TextsAreModelTokens ==
    [][nEmit'[1] = nEmit[1] + 1
         => texts'[1] = IF step_token'[1][1] \in PaddingTokens
                        THEN texts[1]
                        ELSE Append(texts[1], step_token'[1][1])]_vars

\* C27: the send_text calls are, in order, the non-padding text tokens of
\* the step results whose iteration did not raise before send_text; the
\* token is forwarded before the next input frame is consumed (nothing is
\* consumed while send_text is awaited), and padding tokens, and the tokens
\* of a step result whose decode, append or text lookup raised, are never
\* forwarded.
C27_TextsAreForwardedTokens ==
    /\ [][nEmit'[1] = nEmit[1] + 1
             => texts'[1] = IF step_token'[1][1] \in PaddingTokens \/ prevFailed'[1]
                            THEN texts[1]
                            ELSE Append(texts[1], step_token'[1][1])]_vars
    /\ [][texts'[1] # texts[1] => nEmit'[1] = nEmit[1] + 1]_vars
    /\ [][tpc[1]["generate"] = "send_text" => consumed'[1] = consumed[1]]_vars

\* a padding token was produced for the first frame and skipped, and the
\* token of the second frame is being handed to send_text
C27_Witness ==
    /\ nEmit[1] = 2 /\ nAppend[1] = 2
    /\ ~failedBefore[1] /\ ~prevFailed[1]
    /\ texts[1] = <<4>>
    /\ step_token[1] = <<4>>
    /\ tpc[1]["generate"] = "send_text"

\* C28: the egress loop calls send_audio only when the PCM it has
\* accumulated reaches the threshold of int(sample_rate * 0.3) samples, so
\* every batch handed over holds at least that many samples, and when
\* send_audio has returned the buffer is empty.
C28_SendsOnlyFullBatches ==
    /\ [](\A i \in 1..Len(audio_calls[1]) :
              Len(audio_calls[1][i]) >= (FrameSize * 375) \div 100)
    /\ [][audio_calls'[1] # audio_calls[1]
             => /\ audio_calls'[1] = Append(audio_calls[1], pcm_buffer'[1])
                /\ Len(pcm_buffer'[1]) >= (FrameSize * 375) \div 100]_vars
    /\ [][audio_sent'[1] # audio_sent[1] => pcm_buffer'[1] = <<>>]_vars

\* one batch was sent, and the loop is back at its pacing sleep with an
\* empty buffer
C28_Witness ==
    /\ Len(audio_sent[1]) = 1
    /\ audio_calls[1] = audio_sent[1]
    /\ pcm_buffer[1] = <<>>
    /\ tpc[1]["egress"] = "sleep"

\* the samples of the batches for which send_audio returned, in order
RECURSIVE Flatten(_)
Flatten(batches) ==
    IF batches = <<>> THEN <<>> ELSE Head(batches) \o Flatten(Tail(batches))

\* C29 as stated: the concatenation of the batches successfully handed to
\* send_audio is, sample for sample, a prefix of the response PCM.
C29_SentIsPrefix ==
    Flatten(audio_sent[1]) = Iota(0, Len(Flatten(audio_sent[1])))

\* C29: the concatenation of the batches successfully handed to send_audio
\* is, in order and without repetition, a subsequence of the response PCM
\* produced by the generate loop: no response sample is transmitted twice
\* or out of order.
C29_SentInOrderOnce ==
    LET sent == Flatten(audio_sent[1]) IN
    /\ Range(sent) \subseteq 1..totalOut[1]
    /\ \A i \in 1..(Len(sent) - 1) : sent[i] < sent[i + 1]

\* the first read of the egress loop was lost to a decode error, and the
\* one batch that was sent starts after the first response frame
C29_Witness ==
    /\ Len(audio_sent[1]) = 1
    /\ Len(audio_calls[1]) = 1
    /\ audio_sent[1][1][1] > 1
    /\ pcm_buffer[1] = <<>>

\* lines 356-362 in full: the resets, the priming step, the codec reset
SetupCalls == <<"mimi.reset", "other_mimi.reset", "lm_gen.reset",
                "lm_gen.prime", "mimi.reset">>

\* C30: in every session, after the gate is acquired and before the
\* generate loop encodes or steps the session's first user-audio frame, the
\* streaming state of both codecs and of the model has been reset and the
\* priming step has completed; no loop of the session starts before that.
C30_PrimedBeforeLoops ==
    /\ [](\A t \in Tasks : tpc[1][t] # "none" => setup_calls[1] = SetupCalls)
    /\ [][GenConsumes(1) => setup_calls[1] = SetupCalls]_vars
    /\ [][setup_calls'[1] # setup_calls[1]
             => /\ lock' = 1 /\ acquires'[1] = 1
                /\ \A t \in Tasks : tpc[1][t] = "none"]_vars

\* the session holds the gate and its generate loop has consumed a frame
C30_Witness ==
    /\ lock = 1
    /\ hpc[1] = "wait_first"
    /\ setup_calls[1] = SetupCalls
    /\ Len(consumed[1]) = FrameSize
    /\ nEmit[1] = 1

\* C31: a cancelled loop stops at its next suspension point and writes
\* nothing afterwards: once cancel() was called on a task, its only step is
\* the CancelledError that ends it, and the accumulator, the outgoing audio
\* buffer, the session's close flag, send_audio, send_text and the model
\* step are touched by loops that are not cancelled only.
C31_CancelledLoopWritesNothing ==
    /\ [][\A t \in cancelReq[1] :
             tpc'[1][t] \in {tpc[1][t], "cancelled", "none"}]_vars
    /\ [][(/\ "ingress" \in cancelReq[1])
             => totalIn'[1] = totalIn[1]]_vars
    /\ [][(/\ "generate" \in cancelReq[1])
             => /\ consumed'[1] = consumed[1]
                /\ nEmit'[1] = nEmit[1]
                /\ totalOut'[1] = totalOut[1]
                /\ texts'[1] = texts[1]]_vars
    /\ [][(/\ "egress" \in cancelReq[1])
             => /\ audio_calls'[1] = audio_calls[1]
                /\ audio_sent'[1] = audio_sent[1]]_vars
    /\ [][close_requested'[1] # close_requested[1]
             => \E t \in Tasks \ cancelReq[1] : tpc'[1][t] # tpc[1][t]]_vars

\* cancel() was called on the generate loop while it awaits send_text, with
\* response audio in the outgoing buffer
C31_Witness ==
    /\ hpc[1] = "join"
    /\ "generate" \in cancelReq[1]
    /\ tpc[1]["generate"] = "send_text"
    /\ opus_writer[1] # <<>>
    /\ Len(all_pcm_data[1]) >= FrameSize

\* C32: under any interleaving of concurrent get_engine() callers at most
\* one PersonaPlexEngine object is ever created, and every caller that gets
\* an engine gets that one.
C32_OneEngine ==
    /\ Len(engines) <= 1
    /\ \A c \in Callers : gpc[c] = "returned" => got[c] = 1 /\ engine_global = 1

\* two callers have each called once and hold the same engine
C32_Witness ==
    /\ Len(engines) = 1
    /\ \A c \in {1, 2} : gpc[c] = "returned" /\ got[c] = 1 /\ ncalls[c] = 1

\* C33: every engine returned by get_engine() is initialized, also by a
\* call made after an earlier call failed inside initialize().
C33_ReturnedEngineInitialized ==
    \A c \in Callers : gpc[c] = "returned" => engines[got[c]]

\* C37: _should_flush_tts returns None for every buffer shorter than
\* TTS_CHUNK_MIN_CHARS, and a split (never None) for every buffer of at
\* least 3 * TTS_CHUNK_MIN_CHARS characters.
C37_FlushThresholds ==
    flush_out # <<>>
        => /\ Len(flush_in) < TTS_CHUNK_MIN_CHARS => ~flush_out[1].split
           /\ Len(flush_in) >= 3 * TTS_CHUNK_MIN_CHARS => flush_out[1].split

\* a buffer of exactly 3 * TTS_CHUNK_MIN_CHARS letters, without a break
\* point, was flushed whole
C37_Witness ==
    /\ flush_out # <<>>
    /\ Len(flush_in) = 3 * TTS_CHUNK_MIN_CHARS
    /\ \A i \in 1..Len(flush_in) : flush_in[i] = "a"
    /\ flush_out[1] = [split |-> TRUE, to_speak |-> flush_in, remainder |-> <<>>]

\* the terminal messages among the messages of a response
Terminals(sent) == {i \in 1..Len(sent) : sent[i] \in {"final", "error"}}

\* C34 as stated: for every text process_response_stream handled, exactly
\* one terminal message ('final' or 'error') was sent, after every 'token'
\* and 'tts' message of the response.
C34_ExactlyOneTerminal ==
    rpc \in {"returned", "raised"}
        => /\ Cardinality(Terminals(ws_sent)) = 1
           /\ Terminals(ws_sent) = {Len(ws_sent)}

\* C34, amended: never more than one terminal message is sent and nothing
\* follows it; exactly one is sent whenever process_response_stream
\* returns; when sending the 'error' message fails as well,
\* process_response_stream raises and no terminal message was sent.
C34_OneTerminalUnlessSendFails ==
    /\ Terminals(ws_sent) \subseteq {Len(ws_sent)}
    /\ rpc = "returned" => Terminals(ws_sent) = {Len(ws_sent)}
    /\ rpc \in {"meta", "chat", "tokens", "raised"} => Terminals(ws_sent) = {}

\* a response of several tokens, one of them spoken, ended with 'final'
C34_Witness ==
    /\ rpc = "returned"
    /\ Len(ws_sent) >= 4
    /\ ws_sent[Len(ws_sent)] = "final"
    /\ \E i \in 1..Len(ws_sent) : ws_sent[i] = "tts"
    /\ \E i \in 1..Len(ws_sent) : ws_sent[i] = "token"

IsInk(c) == c \notin Whitespace
\* the characters of a string that are not whitespace, in order
NonWs(str) == SelectSeq(str, IsInk)
\* process_response_stream returned after sending 'final'
ResponseFinished == rpc = "returned" /\ ws_sent # <<>> /\ ws_sent[Len(ws_sent)] = "final"
\* the buffer a token step hands to _should_flush_tts (main.py lines 215-216)
FlushedBuffer ==
    buffer \o SubSeq(full_response', Len(full_response) + 1, Len(full_response'))

\* C38 as stated: over a whole streamed response, the chunks passed to
\* send_tts contain every non-whitespace character of the response exactly
\* once and in order.
C38_AllSpoken ==
    ResponseFinished => NonWs(Flatten(tts_passed)) = NonWs(full_response)

\* C38, amended: a split returned by _should_flush_tts is the buffer with
\* only whitespace after the break removed, and while audio output is
\* enabled the chunks passed to send_tts over a whole response contain every
\* non-whitespace character of the response once and in order.
C38_AllSpokenWhenAudioEnabled ==
    /\ [](ResponseFinished /\ audio_enabled
            => NonWs(Flatten(tts_passed)) = NonWs(full_response))
    /\ [][(rpc \in {"chat", "tokens"} /\ tokens_used' = tokens_used + 1
             /\ audio_enabled /\ should_flush_tts(FlushedBuffer).split)
          => /\ \E k \in 1..Len(FlushedBuffer), e \in 1..Len(FlushedBuffer) :
                  /\ k <= e
                  /\ should_flush_tts(FlushedBuffer).to_speak
                         = SubSeq(FlushedBuffer, 1, k)
                  /\ should_flush_tts(FlushedBuffer).remainder
                         = SubSeq(FlushedBuffer, e + 1, Len(FlushedBuffer))
                  /\ \A i \in (k + 1)..e : FlushedBuffer[i] \in Whitespace
             /\ rpc' = "tokens"
                  => buffer' = should_flush_tts(FlushedBuffer).remainder]_vars

\* a response was split at a sentence end followed by two blanks: one blank
\* was dropped, and both chunks were passed to send_tts
C38_Witness ==
    /\ ResponseFinished
    /\ audio_enabled
    /\ full_response = <<".", " ", " ", "a">>
    /\ tts_passed = << <<".", " ">>, <<"a">> >>

\* a step in which handle_user_text_stream ran on a flagged text
PrivateStreamStep ==
    rpc = "meta" /\ rpc' # "meta" /\ requires_private_data(text_input)
\* a step in which handle_user_text ran on a flagged text
PrivateSyncStep ==
    /\ ntexts' = ntexts + 1
    /\ rpc' = rpc
    /\ requires_private_data(sync_result'[1].text)

\* C39: for a text flagged by requires_private_data, handle_user_text and
\* handle_user_text_stream return the refusal without calling the retriever
\* or a chat backend, and the conversation state changes by one appended
\* assistant refusal turn only: no user turn, issue_summary unchanged.
C39_RefusalOnlyAppendsRefusal ==
    [][/\ PrivateStreamStep \/ PrivateSyncStep
          => /\ history' = Append(history, Turn("assistant", Refusal))
             /\ issue_summary' = issue_summary
             /\ retriever_calls' = retriever_calls
             /\ chat_calls' = chat_calls
       /\ PrivateStreamStep
          => /\ rpc' \in {"returned", "raised"}
             /\ full_response' \in {Refusal, <<>>}
             /\ ResponseFinished' => full_response' = Refusal
       /\ PrivateSyncStep
          => /\ sync_result'[1].response = Refusal
             /\ ~sync_result'[1].raised
             /\ sync_result'[1].intent = INTENT_UNKNOWN]_vars

\* with a retriever loaded, handle_user_text and then the stream refused a
\* flagged text each: two refusal turns, nothing else
C39_Witness ==
    /\ retriever_loaded
    /\ sync_result # <<>>
    /\ requires_private_data(sync_result[1].text)
    /\ ResponseFinished
    /\ requires_private_data(text_input)
    /\ detect_intent(text_input) = INTENT_TICKET
    /\ history = <<Turn("assistant", Refusal), Turn("assistant", Refusal)>>
    /\ issue_summary = <<>>
    /\ retriever_calls = 0
    /\ chat_calls = 0

\* C35: when get_stt() returns None, startup succeeds and a /ws/audio
\* connection is served all the same: once accepted it receives the
\* 'connected' status, unless the client is gone, and handles texts.
C35_ServedWithoutSTT ==
    stt_kind = "none" /\ accepted => connected \/ rpc = "closed"

\* C36: once the buffered audio reaches the maximum duration, accept_audio
\* forces a transcription and resets the buffer, so the buffer never holds
\* more than the maximum duration plus one chunk.
C36_BufferBounded ==
    stt_buffer <= max_duration * sample_rate * 2 + ChunkBytes

====
